---------------------------- MODULE Spec2Model ----------------------------
(***************************************************************************)
(* TimerLight (src/Timerclock.py): a MicroPython program that drives a     *)
(* NeoPixel ring from a wake/bedtime schedule.  The model covers the       *)
(* timezone/DST resolver, the schedule evaluation (update_leds and the     *)
(* flash session), the configuration handler (handle_request) and the      *)
(* host loop (main / run_server).                                          *)
(*                                                                         *)
(* Representation choices                                                  *)
(*  - An instant is [secs, ms]: whole seconds since 2000-01-01 00:00:00    *)
(*    and the milliseconds inside that second.  time.mktime and            *)
(*    time.localtime work on secs.  time.time() is the machine clock the   *)
(*    module also reads through rtc.datetime(); it is kept at millisecond  *)
(*    resolution, a build whose time.time() counts whole seconds visits    *)
(*    the instants with ms = 0.                                            *)
(*  - A "HH:MM" string is the sequence of its ':'-separated numeric parts  *)
(*    (<<7, 0>> for "07:00"); a string without a ':' has one part, and     *)
(*    time_to_minutes raises on it as Python does on parts[1].             *)
(*  - A numeric form field is [num, val]: num = FALSE is a string int()    *)
(*    rejects with ValueError.                                             *)
(*  - A colour is <<r, g, b>>.                                             *)
(***************************************************************************)
EXTENDS Integers, Sequences, FiniteSets, TLC

VARIABLES
    settings,           \* the module-level settings dict
    rtc,                \* the machine clock (UTC), also read by time.time()
    external_rtc,       \* TRUE when the DS3231 handle is set (not None)
    ds_present,         \* environment: a device answers at 0x68 on the bus
    ds_time,            \* environment: the instant the DS3231 registers hold
    flash_start_time,   \* None or Some(instant the flash session started)
    last_flash_toggle,  \* instant of the last flash write
    np,                 \* the NeoPixel object: None or Some([n, buf])
    strip,              \* the frame last committed by np.write()
    last_update,        \* run_server: instant of the last periodic update
    last_sync,          \* run_server: instant of the last periodic resync
    pc,                 \* "boot", "server", "offline", "halted"; "dst" when
                        \* only the DST functions are exercised
    eval,               \* the frame of the last update_leds call
    ret                 \* return value of the last function call observed

vars == <<settings, rtc, external_rtc, ds_present, ds_time, flash_start_time,
          last_flash_toggle, np, strip, last_update, last_sync, pc, eval, ret>>

-----------------------------------------------------------------------------
(* Calendar arithmetic of time.mktime / time.localtime (epoch 2000-01-01,  *)
(* a Saturday; no timezone).                                               *)

IsLeap(y) == (y % 4 = 0 /\ y % 100 # 0) \/ y % 400 = 0

DaysInMonth(y, m) ==
    IF m = 2 THEN (IF IsLeap(y) THEN 29 ELSE 28)
    ELSE IF m \in {4, 6, 9, 11} THEN 30 ELSE 31

LeapsThrough(y) == (y \div 4) - (y \div 100) + (y \div 400)

DaysBeforeYear(y) == 365 * (y - 2000) + LeapsThrough(y - 1) - LeapsThrough(1999)

RECURSIVE DaysBeforeMonth(_, _)
DaysBeforeMonth(y, m) ==
    IF m <= 1 THEN 0 ELSE DaysBeforeMonth(y, m - 1) + DaysInMonth(y, m - 1)

\* time.mktime((year, month, day, hour, minute, second, _, _)): out-of-range
\* days run on into the following month, as MicroPython normalises them.
mktime(y, mo, d, h, mi, s) ==
    (DaysBeforeYear(y) + DaysBeforeMonth(y, mo) + (d - 1)) * 86400
        + h * 3600 + mi * 60 + s

YearOfDays(days) ==
    LET g == 2000 + (days \div 365)
    IN  IF DaysBeforeYear(g) > days THEN g - 1 ELSE g

RECURSIVE MonthOfYearDay(_, _, _)
MonthOfYearDay(y, m, yday) ==
    IF yday < DaysInMonth(y, m) THEN m
    ELSE MonthOfYearDay(y, m + 1, yday - DaysInMonth(y, m))

\* time.localtime(t): [0]=year [1]=month [2]=mday [3]=hour [4]=minute
\* [5]=second [6]=weekday (Monday = 0).
TimeTuple(y, mo, yday, days, sod) ==
    [year    |-> y,
     month   |-> mo,
     mday    |-> yday - DaysBeforeMonth(y, mo) + 1,
     hour    |-> sod \div 3600,
     minute  |-> (sod % 3600) \div 60,
     second  |-> sod % 60,
     weekday |-> (days + 5) % 7]

\* The date of day number `days` (since the epoch) known to lie in year y.
DateInYear(y, yday, days, sod) ==
    TimeTuple(y, MonthOfYearDay(y, 1, yday), yday, days, sod)

DateOfDays(y, days, sod) == DateInYear(y, days - DaysBeforeYear(y), days, sod)

localtime(t) == DateOfDays(YearOfDays(t \div 86400), t \div 86400, t % 86400)

\* time.mktime(tm) on a tuple time.localtime returned.
mktime_tuple(tm) ==
    mktime(tm.year, tm.month, tm.mday, tm.hour, tm.minute, tm.second)

-----------------------------------------------------------------------------
(* Timezone and DST tables.                                                *)

TIMEZONES ==
    [UTC |-> 0, GMT |-> 0, EST |-> -300, EDT |-> -240, CST |-> -360,
     CDT |-> -300, MST |-> -420, MDT |-> -360, PST |-> -480, PDT |-> -420,
     BST |-> 60, CET |-> 60, CEST |-> 120, EET |-> 120, EEST |-> 180,
     AEST |-> 600, AEDT |-> 660]

DST_RULES ==
    [US |-> [start_month |-> 3, start_week |-> 2, start_hour |-> 2,
             end_month |-> 11, end_week |-> 1, end_hour |-> 2,
             offset_minutes |-> 60],
     EU |-> [start_month |-> 3, start_week |-> -1, start_hour |-> 1,
             end_month |-> 10, end_week |-> -1, end_hour |-> 1,
             offset_minutes |-> 60],
     UK |-> [start_month |-> 3, start_week |-> -1, start_hour |-> 1,
             end_month |-> 10, end_week |-> -1, end_hour |-> 1,
             offset_minutes |-> 60],
     AU |-> [start_month |-> 10, start_week |-> 1, start_hour |-> 2,
             end_month |-> 4, end_week |-> 1, end_hour |-> 3,
             offset_minutes |-> 60]]

\* settings['dst_region'] is None or a string; "None" stands for None.
NoRegion == "None"

\* get_nth_weekday_of_month returns None when it finds no day; Python's
\* `if start_day and end_day` treats None as false, as it does 0.
NoDay == 0

\* The weekday number the scan compares with: (localtime[6] + 1) % 7.
ScanWeekday(y, mo, d) == (localtime(mktime(y, mo, d, 0, 0, 0)).weekday + 1) % 7

RECURSIVE NthScan(_, _, _, _, _, _)
NthScan(y, mo, weekday, n, day, count) ==
    IF day > 31 THEN NoDay
    ELSE IF ScanWeekday(y, mo, day) = weekday
         THEN IF count + 1 = n THEN day
              ELSE NthScan(y, mo, weekday, n, day + 1, count + 1)
         ELSE NthScan(y, mo, weekday, n, day + 1, count)

RECURSIVE LastScan(_, _, _, _)
LastScan(y, mo, weekday, day) ==
    IF day < 1 THEN NoDay
    ELSE IF ScanWeekday(y, mo, day) = weekday THEN day
         ELSE LastScan(y, mo, weekday, day - 1)

get_nth_weekday_of_month(y, mo, weekday, n) ==
    IF n > 0 THEN NthScan(y, mo, weekday, n, 1, 0)
    ELSE LET next_month == IF mo = 12 THEN 1 ELSE mo + 1
             next_year  == IF mo = 12 THEN y + 1 ELSE y
             last_day   == mktime(next_year, next_month, 1, 0, 0, 0) - 86400
         IN  LastScan(y, mo, weekday, localtime(last_day).mday)

\* The weekday argument calculate_dst_transitions passes to the scan.
DstAnchorWeekday == 6

\* calculate_dst_transitions: [ok, start, end]; ok = FALSE is (None, None).
NoTransitions == [ok |-> FALSE, start |-> 0, end |-> 0]

\* Lines 241-246: the two timestamps from the two days found.
TransitionTimes(year, rules, start_day, end_day) ==
    IF start_day # NoDay /\ end_day # NoDay
    THEN [ok    |-> TRUE,
          start |-> mktime(year, rules.start_month, start_day,
                           rules.start_hour, 0, 0),
          end   |-> mktime(year, rules.end_month, end_day,
                           rules.end_hour, 0, 0)]
    ELSE NoTransitions

\* Lines 236-239: the two scans for the rules of a region.
RuleTransitions(year, rules) ==
    TransitionTimes(year, rules,
        get_nth_weekday_of_month(year, rules.start_month, DstAnchorWeekday,
                                 rules.start_week),
        get_nth_weekday_of_month(year, rules.end_month, DstAnchorWeekday,
                                 rules.end_week))

calculate_dst_transitions(year, dst_region) ==
    IF dst_region \notin DOMAIN DST_RULES THEN NoTransitions
    ELSE RuleTransitions(year, DST_RULES[dst_region])

\* A window comparison with the inside and the outside exchanged.
InYearWindowOutside(t, dst_start, dst_end) == t < dst_start \/ t >= dst_end

\* The comparison of is_dst_active for a window inside one year.
InYearWindow(t, dst_start, dst_end) == dst_start <= t /\ t < dst_end

\* The comparison of is_dst_active for a window that wraps the year end.
WrapWindow(t, dst_start, dst_end) == t >= dst_start \/ t < dst_end

\* Line 249's guard: DST disabled, or a region the table does not hold.
DstRuleMissing(s, dst_region) ==
    ~s.dst_enabled \/ dst_region \notin DOMAIN DST_RULES

\* Lines 253-258: the comparison with the transitions tr of the year.
InDstWindow(tr, current_time, dst_region) ==
    IF ~tr.ok THEN FALSE
    ELSE IF DST_RULES[dst_region].start_month < DST_RULES[dst_region].end_month
    THEN InYearWindow(current_time, tr.start, tr.end)
    ELSE WrapWindow(current_time, tr.start, tr.end)

is_dst_active(s, current_time, dst_region) ==
    IF DstRuleMissing(s, dst_region) THEN FALSE
    ELSE InDstWindow(
             calculate_dst_transitions(localtime(current_time).year,
                                       dst_region),
             current_time, dst_region)

\* A get_local_time that never adds the DST offset.
OffsetTimestampNoDst(s, utc_timestamp) ==
    utc_timestamp + s.utc_offset_minutes * 60

\* Lines 264-269: the local timestamp for a UTC timestamp.
OffsetTimestamp(s, utc_timestamp) ==
    IF s.dst_region # NoRegion /\ is_dst_active(s, utc_timestamp, s.dst_region)
    THEN utc_timestamp + s.utc_offset_minutes * 60
             + DST_RULES[s.dst_region].offset_minutes * 60
    ELSE utc_timestamp + s.utc_offset_minutes * 60

\* get_local_time: the local timestamp handed to time.localtime.
local_timestamp(s, clock) ==
    OffsetTimestamp(s, mktime_tuple(localtime(clock.secs)))

get_local_time(s, clock) == localtime(local_timestamp(s, clock))

\* local_time[3] * 60 + local_time[4].
MinuteOfDay(local_time) == local_time.hour * 60 + local_time.minute

get_current_minutes(s, clock) == MinuteOfDay(get_local_time(s, clock))

-----------------------------------------------------------------------------
(* Instants and time differences.                                          *)

\* Python's None for an optional value; Some(x) is a value that is set.
None == <<>>

Some(x) == <<x>>

\* The module-level initial value of last_flash_toggle: time 0.
Epoch == [secs |-> 0, ms |-> 0]

\* a - b in milliseconds.  Differences beyond 2,000,000 s are reported as
\* +-2,000,000,000 ms: every threshold the program compares with (flash
\* duration and interval, 10 s, 3600 s) is far below that.
DiffMs(a, b) ==
    LET d == a.secs - b.secs
    IN  IF d > 2000000 THEN 2000000000
        ELSE IF d < -2000000 THEN -2000000000
        ELSE d * 1000 + (a.ms - b.ms)

\* int(a / b) for exact a / b: Python's int() truncates toward zero.
TruncDiv(a, b) == IF a >= 0 THEN a \div b ELSE -((-a) \div b)

-----------------------------------------------------------------------------
(* Settings.                                                               *)

DefaultSettings ==
    [wake_time               |-> <<7, 0>>,
     bedtime                 |-> <<21, 0>>,
     bedtime_enabled         |-> TRUE,
     stay_color              |-> <<255, 0, 0>>,
     wake_color              |-> <<0, 255, 0>>,
     transition_minutes      |-> 30,
     timezone                |-> "UTC",
     utc_offset_minutes      |-> 0,
     dst_enabled             |-> TRUE,
     dst_region              |-> NoRegion,
     num_leds                |-> 12,
     leds_enabled            |-> FALSE,
     brightness              |-> 100,
     led_color_order         |-> "RGB",
     use_external_rtc        |-> TRUE,
     brightness_ramp_enabled |-> FALSE,
     brightness_ramp_minutes |-> 15,
     brightness_ramp_start   |-> 10,
     flash_enabled           |-> FALSE,
     flash_duration          |-> 10,
     flash_interval          |-> 500]

\* time_to_minutes: parts = time_str.split(':'), then parts[0] and parts[1].
\* TimeOk is FALSE where the function raises (IndexError on parts[1]).
TimeOk(time_str) == Len(time_str) >= 2

time_to_minutes(time_str) == time_str[1] * 60 + time_str[2]

-----------------------------------------------------------------------------
(* Easing, interpolation, brightness.  A ratio is an exact fraction        *)
(* [n, d] with d > 0; the program computes the same values in floating     *)
(* point.                                                                  *)

\* A quadratic ease-in-out in place of the cubic one.
EaseQuadratic(t) ==
    IF 2 * t.n < t.d
    THEN [n |-> 2 * t.n * t.n, d |-> t.d * t.d]
    ELSE [n |-> 2 * t.d * t.d - (2 * t.d - 2 * t.n) * (2 * t.d - 2 * t.n),
          d |-> 2 * t.d * t.d]

\* ease_in_out_cubic(n/d) as a fraction.
ease_in_out_cubic(t) ==
    IF 2 * t.n < t.d
    THEN [n |-> 4 * t.n * t.n * t.n, d |-> t.d * t.d * t.d]
    ELSE LET u == 2 * t.d - 2 * t.n
         IN  [n |-> 2 * t.d * t.d * t.d - u * u * u,
              d |-> 2 * t.d * t.d * t.d]

\* One channel of interpolate_color: int(c1 + (c2 - c1) * eased_ratio).
InterpolateChannel(c1, c2, eased) ==
    TruncDiv(c1 * eased.d + (c2 - c1) * eased.n, eased.d)

\* An interpolation without the easing.
InterpolateLinear(color1, color2, ratio) ==
    <<InterpolateChannel(color1[1], color2[1], ratio),
      InterpolateChannel(color1[2], color2[2], ratio),
      InterpolateChannel(color1[3], color2[3], ratio)>>

interpolate_color(color1, color2, ratio) ==
    LET eased_ratio == ease_in_out_cubic(ratio)
    IN  <<InterpolateChannel(color1[1], color2[1], eased_ratio),
          InterpolateChannel(color1[2], color2[2], eased_ratio),
          InterpolateChannel(color1[3], color2[3], eased_ratio)>>

\* get_current_brightness: the brightness percentage as a fraction.
\* It calls time_to_minutes(wake_time) only when the ramp is enabled.
BrightnessRaises(s) == s.brightness_ramp_enabled /\ ~TimeOk(s.wake_time)

\* A ramp that starts from zero instead of brightness_ramp_start.
RampValueFromZero(s, eased) ==
    [n |-> s.brightness * eased.n, d |-> eased.d]

\* Line 462: ramp_start + (base_brightness - ramp_start) * eased_progress.
RampValue(s, eased) ==
    [n |-> s.brightness_ramp_start * eased.d
               + (s.brightness - s.brightness_ramp_start) * eased.n,
     d |-> eased.d]

\* Lines 453-469: the brightness at minute current_minutes, ramp enabled.
RampBrightness(s, current_minutes, wake_minutes) ==
    IF current_minutes >= wake_minutes
       /\ current_minutes < wake_minutes + s.brightness_ramp_minutes
    THEN RampValue(s, ease_in_out_cubic(
                          [n |-> current_minutes - wake_minutes,
                           d |-> s.brightness_ramp_minutes]))
    ELSE [n |-> s.brightness, d |-> 1]

get_current_brightness(s, clock) ==
    IF ~s.brightness_ramp_enabled THEN [n |-> s.brightness, d |-> 1]
    ELSE RampBrightness(s, get_current_minutes(s, clock),
                        time_to_minutes(s.wake_time))

\* apply_brightness: int(channel * (brightness / 100.0)) per channel.
ScaleColor(c, b) ==
    <<TruncDiv(c[1] * b.n, b.d * 100),
      TruncDiv(c[2] * b.n, b.d * 100),
      TruncDiv(c[3] * b.n, b.d * 100)>>

apply_brightness(s, clock, c) == ScaleColor(c, get_current_brightness(s, clock))

convert_color_order(s, c) ==
    IF s.led_color_order = "RGB" THEN <<c[1], c[2], c[3]>>
    ELSE IF s.led_color_order = "GRB" THEN <<c[2], c[1], c[3]>>
    ELSE IF s.led_color_order = "RGBW" THEN <<c[1], c[2], c[3], 0>>
    ELSE IF s.led_color_order = "GRBW" THEN <<c[2], c[1], c[3], 0>>
    ELSE <<c[1], c[2], c[3]>>

-----------------------------------------------------------------------------
(* The NeoPixel buffer.  np is None or Some([n, buf]): buf holds the       *)
(* colours assigned with np[i] = ..., strip the frame np.write() last      *)
(* committed to the LED driver.                                            *)

Off == <<0, 0, 0>>

\* np[i] = c for i in range(k), on a buffer of Len(buf) pixels.
FillPrefix(buf, k, c) ==
    [i \in 1..Len(buf) |-> IF i <= k THEN c ELSE buf[i]]

\* The loop `for i in range(num_leds): np[i] = color` followed by np.write().
\* An index past the buffer raises IndexError after the pixels before it
\* were assigned; both callers catch it and skip np.write().
WritePixels(s, npv, stripv, c) ==
    IF s.num_leds > npv[1].n
    THEN [np    |-> Some([npv[1] EXCEPT !.buf = FillPrefix(@, npv[1].n, c)]),
          strip |-> stripv]
    ELSE [np    |-> Some([npv[1] EXCEPT !.buf = FillPrefix(@, s.num_leds, c)]),
          strip |-> FillPrefix(npv[1].buf, s.num_leds, c)]

\* set_all_leds(r, g, b).  A raise inside apply_brightness is the caller's.
set_all_leds(s, clock, npv, stripv, c) ==
    IF npv = None \/ ~s.leds_enabled THEN [np |-> npv, strip |-> stripv]
    ELSE WritePixels(s, npv, stripv,
                     convert_color_order(s, apply_brightness(s, clock, c)))

turn_off_leds(s, npv, stripv) ==
    IF npv = None THEN [np |-> npv, strip |-> stripv]
    ELSE WritePixels(s, npv, stripv, Off)

\* NeoPixel(np_pin, num_leds, bpp) allocates bytearray(num_leds * bpp):
\* a negative count raises.
NeoPixelFails(n) == n < 0

\* initialize_neopixel: a new zeroed buffer, then set_all_leds(0, 0, 0);
\* any exception is caught and leaves np as it was.
NeoPixel(n) == Some([n |-> n, buf |-> [i \in 1..n |-> Off]])

initialize_neopixel(s, clock, npv, stripv) ==
    IF NeoPixelFails(s.num_leds) THEN [np |-> npv, strip |-> stripv]
    ELSE IF s.leds_enabled /\ BrightnessRaises(s)
    THEN [np |-> NeoPixel(s.num_leds), strip |-> stripv]
    ELSE set_all_leds(s, clock, NeoPixel(s.num_leds), stripv, Off)

-----------------------------------------------------------------------------
(* The schedule evaluation: should_flash and update_leds.                  *)

\* should_flash: [flash, fst], the return value and the new
\* flash_start_time.  It is called after update_leds parsed the times.
FlashSession(s, clock, started) ==
    IF DiffMs(clock, started[1]) < s.flash_duration * 1000
    THEN [flash |-> TRUE, fst |-> started]
    ELSE [flash |-> FALSE, fst |-> None]

should_flash(s, clock, fst) ==
    IF ~s.flash_enabled THEN [flash |-> FALSE, fst |-> None]
    ELSE IF ~s.bedtime_enabled THEN [flash |-> FALSE, fst |-> None]
    ELSE IF get_current_minutes(s, clock) = time_to_minutes(s.bedtime)
    THEN FlashSession(s, clock, IF fst = None THEN Some(clock) ELSE fst)
    ELSE [flash |-> FALSE, fst |-> None]

\* A stay period that lasts from bedtime until the wake minute.
InStayUntilWake(s, current_minutes) ==
    /\ current_minutes >= time_to_minutes(s.bedtime)
    /\ current_minutes < time_to_minutes(s.wake_time)

\* A stay period that never wraps around midnight.
InStayNeverWraps(s, current_minutes) ==
    /\ current_minutes >= time_to_minutes(s.bedtime)
    /\ current_minutes < time_to_minutes(s.wake_time) - s.transition_minutes

\* A stay period that always wraps around midnight.
InStayAlwaysWraps(s, current_minutes) ==
    \/ current_minutes >= time_to_minutes(s.bedtime)
    \/ current_minutes < time_to_minutes(s.wake_time) - s.transition_minutes

\* Lines 594-599: the "stay in bed" period (bedtime enabled).
in_stay_period(s, current_minutes) ==
    LET wake_minutes     == time_to_minutes(s.wake_time)
        transition_start == wake_minutes - s.transition_minutes
        bedtime_minutes  == time_to_minutes(s.bedtime)
    IN  IF bedtime_minutes > wake_minutes
        THEN current_minutes >= bedtime_minutes
                 \/ current_minutes < transition_start
        ELSE current_minutes >= bedtime_minutes
                 /\ current_minutes < transition_start

\* A variant of WakeState in which the minute transition_start itself
\* belongs to no branch.
WakeStateGap(s, current_minutes) ==
    LET wake_minutes     == time_to_minutes(s.wake_time)
        transition_start == wake_minutes - s.transition_minutes
    IN  IF current_minutes >= wake_minutes THEN "DAY"
        ELSE IF current_minutes > transition_start THEN "TRANSITION"
        ELSE IF current_minutes < transition_start THEN "NIGHT"
        ELSE "UNSET"

\* A variant of WakeState in which the wake minute itself still belongs
\* to the transition window.
WakeStateLateDay(s, current_minutes) ==
    LET wake_minutes     == time_to_minutes(s.wake_time)
        transition_start == wake_minutes - s.transition_minutes
    IN  IF current_minutes > wake_minutes THEN "DAY"
        ELSE IF current_minutes >= transition_start THEN "TRANSITION"
        ELSE "NIGHT"

\* A variant of WakeState that tests the transition window first and
\* without its upper end.
WakeStateWindowFirst(s, current_minutes) ==
    LET wake_minutes     == time_to_minutes(s.wake_time)
        transition_start == wake_minutes - s.transition_minutes
    IN  IF current_minutes >= transition_start THEN "TRANSITION"
        ELSE "NIGHT"

\* Lines 608-614: the branch taken outside the stay period.
WakeState(s, current_minutes) ==
    LET wake_minutes     == time_to_minutes(s.wake_time)
        transition_start == wake_minutes - s.transition_minutes
    IN  IF current_minutes >= wake_minutes THEN "DAY"
        ELSE IF current_minutes >= transition_start THEN "TRANSITION"
        ELSE "NIGHT"

\* A progress that runs five minutes ahead of the window.
TransitionProgressAhead(s, current_minutes) ==
    [n |-> current_minutes + 5
               - (time_to_minutes(s.wake_time) - s.transition_minutes),
     d |-> s.transition_minutes]

\* progress of line 611 as a fraction.
TransitionProgress(s, current_minutes) ==
    LET wake_minutes     == time_to_minutes(s.wake_time)
        transition_start == wake_minutes - s.transition_minutes
    IN  [n |-> current_minutes - transition_start, d |-> s.transition_minutes]

\* The colour of the branch (lines 603, 609, 612, 614).
StateColor(s, current_minutes, state) ==
    IF state = "DAY" THEN s.wake_color
    ELSE IF state = "TRANSITION"
    THEN interpolate_color(s.stay_color, s.wake_color,
                           TransitionProgress(s, current_minutes))
    ELSE s.stay_color

\* A variant of FlashPhase that never reaches the "off" half.
FlashPhaseStuck(clock, interval) == 0

\* int(current_time / flash_interval) % 2 with flash_interval in ms > 0,
\* computed modulo 2 * interval to stay inside the 32-bit integers of TLC.
FlashPhase(clock, interval) ==
    ((((clock.secs % (2 * interval)) * 1000) + clock.ms) % (2 * interval))
        \div interval

\* A variant of UpdateRaisesEarly in which a DST region missing from
\* DST_RULES raises (a KeyError that get_local_time lets through).
UpdateRaisesOnUnknownRegion(s) ==
    s.leds_enabled
        /\ (\/ ~TimeOk(s.wake_time)
            \/ (s.bedtime_enabled /\ ~TimeOk(s.bedtime))
            \/ (s.dst_region # NoRegion /\ s.dst_region \notin DOMAIN DST_RULES))

\* update_leds raises before it changes anything when a time string it
\* parses is malformed (lines 583 and 590).
UpdateRaisesEarly(s) ==
    s.leds_enabled
        /\ (~TimeOk(s.wake_time) \/ (s.bedtime_enabled /\ ~TimeOk(s.bedtime)))

\* The frame of one update_leds call: what it read (the settings record
\* cfg, the clock at, the flash session and the last toggle it found) and
\* the branch it took (state, color, whether the flash overlay was active,
\* whether it returned from the stay-in-bed branch).
Branch(s, clock, fst, lft, state, color, flash, stay) ==
    [cfg |-> s, at |-> clock, session |-> fst, toggle |-> lft,
     state |-> state, color |-> color, flash |-> flash, stay |-> stay]

\* No update_leds call was made yet.
NoEval == Branch(DefaultSettings, Epoch, None, Epoch, "NONE", Off, FALSE, FALSE)

\* What one evaluation leaves behind: out is the [np, strip] pair of the
\* LED calls it made, ev its frame.
Evaluated(raised, fst, lft, out, ev) ==
    [raised |-> raised, fst |-> fst, lft |-> lft,
     np |-> out.np, strip |-> out.strip, ev |-> ev]

\* Lines 616-631: the flash overlay when should_flash() returned sf.flash,
\* the steady colour otherwise.  flash_interval = 0 divides by zero at
\* line 625, after line 623.
FlashBranch(s, clock, sf, ev, npv, stripv) ==
    IF ~sf.flash
    THEN Evaluated(FALSE, sf.fst, ev.toggle,
                   set_all_leds(s, clock, npv, stripv, ev.color), ev)
    ELSE IF DiffMs(clock, ev.toggle) < s.flash_interval
    THEN Evaluated(FALSE, sf.fst, ev.toggle, [np |-> npv, strip |-> stripv],
                   [ev EXCEPT !.flash = TRUE])
    ELSE IF s.flash_interval = 0
    THEN Evaluated(TRUE, sf.fst, clock, [np |-> npv, strip |-> stripv],
                   [ev EXCEPT !.flash = TRUE])
    ELSE Evaluated(FALSE, sf.fst, clock,
                   set_all_leds(s, clock, npv, stripv,
                                IF FlashPhase(clock, s.flash_interval) = 0
                                THEN ev.color ELSE Off),
                   [ev EXCEPT !.flash = TRUE])

\* Lines 594-631: the evaluation at minute current_minutes.
EvaluateAt(s, clock, current_minutes, fst, lft, npv, stripv) ==
    IF s.bedtime_enabled /\ in_stay_period(s, current_minutes)
    THEN Evaluated(FALSE, fst, lft,
                   set_all_leds(s, clock, npv, stripv, s.stay_color),
                   Branch(s, clock, fst, lft, "NIGHT", s.stay_color,
                          FALSE, TRUE))
    ELSE IF WakeState(s, current_minutes) = "TRANSITION"
            /\ s.transition_minutes = 0
    THEN Evaluated(TRUE, fst, lft, [np |-> npv, strip |-> stripv],
                   Branch(s, clock, fst, lft, "RAISED", Off, FALSE, FALSE))
    ELSE FlashBranch(s, clock, should_flash(s, clock, fst),
                     Branch(s, clock, fst, lft,
                            WakeState(s, current_minutes),
                            StateColor(s, current_minutes,
                                       WakeState(s, current_minutes)),
                            FALSE, FALSE),
                     npv, stripv)

\* An evaluation that sets the clock back to the epoch before reading it.
UpdateLedsResetsClock(s, clock, fst, lft, npv, stripv) ==
    EvaluateAt(s, Epoch, get_current_minutes(s, Epoch), fst, lft, npv, stripv)

\* update_leds: the new flash_start_time, last_flash_toggle, np and strip,
\* whether the call raised, and (ev) the frame of the call.
update_leds(s, clock, fst, lft, npv, stripv) ==
    IF ~s.leds_enabled
    THEN Evaluated(FALSE, fst, lft, turn_off_leds(s, npv, stripv),
                   Branch(s, clock, fst, lft, "OFF", Off, FALSE, FALSE))
    ELSE IF UpdateRaisesEarly(s)
    THEN Evaluated(TRUE, fst, lft, [np |-> npv, strip |-> stripv],
                   Branch(s, clock, fst, lft, "RAISED", Off, FALSE, FALSE))
    ELSE EvaluateAt(s, clock, get_current_minutes(s, clock), fst, lft,
                    npv, stripv)

-----------------------------------------------------------------------------
(* The external clock (DS3231).  ds_time is the instant (whole seconds)    *)
(* its registers hold; bus is TRUE when the I2C transfer succeeds.         *)

\* ret before any of the calls it records: fn names the function called
\* last, arg holds its arguments and value its result where the other
\* fields do not.
NoRet == [fn |-> "none", region |-> NoRegion, year |-> 0, t |-> 0,
          tr |-> NoTransitions, active |-> FALSE, local |-> localtime(0),
          value |-> [n |-> 0, d |-> 1], arg |-> [n |-> 0, d |-> 1]]

\* initialize_external_rtc: the new value of the handle.
initialize_external_rtc(s, present) == s.use_external_rtc /\ present

\* A sync that writes the register instant to the machine clock even when
\* the read failed.
SyncSetsOnFailure(ext, bus, clock, ds) ==
    [ok |-> ext /\ bus, rtc |-> [secs |-> ds, ms |-> 0]]

\* read_ds3231_time / sync_time_from_ds3231: the new machine clock.
sync_time_from_ds3231(ext, bus, clock, ds) ==
    IF ~ext THEN [ok |-> FALSE, rtc |-> clock]
    ELSE IF ~bus THEN [ok |-> FALSE, rtc |-> clock]
    ELSE [ok |-> TRUE, rtc |-> [secs |-> ds, ms |-> 0]]

\* A decoder that reads a register as a plain binary number.
BinaryToDec(bcd) == bcd

\* bcd_to_dec: (bcd >> 4) * 10 + (bcd & 0x0F).
bcd_to_dec(bcd) == (bcd \div 16) * 10 + (bcd % 16)

\* dec_to_bcd: ((dec // 10) << 4) | (dec % 10); the low nibble of the
\* shifted part is clear, so the bitwise or is a sum.
dec_to_bcd(dec) == (dec \div 10) * 16 + (dec % 10)

\* b & mask for a mask of the form 2^k - 1.
MaskLow(b, mask) == b % (mask + 1)

\* Lines 154-157: the seven register bytes written from register 0x00 on;
\* the day-of-week register always receives 1.
EncodeRegisters(y, mo, d, h, mi, sec) ==
    <<dec_to_bcd(sec), dec_to_bcd(mi), dec_to_bcd(h), 1,
      dec_to_bcd(d), dec_to_bcd(mo), dec_to_bcd(y - 2000)>>

\* bytearray([...]) raises ValueError for an element outside 0..255.
ByteArrayFails(data) == \E i \in DOMAIN data : data[i] < 0 \/ data[i] > 255

\* Lines 138-145: the fields read_ds3231_time extracts from seven register
\* bytes.
DecodeRegisters(data) ==
    [year        |-> bcd_to_dec(data[7]) + 2000,
     month       |-> bcd_to_dec(MaskLow(data[6], 31)),
     day         |-> bcd_to_dec(MaskLow(data[5], 63)),
     day_of_week |-> bcd_to_dec(MaskLow(data[4], 7)),
     hours       |-> bcd_to_dec(MaskLow(data[3], 63)),
     minutes     |-> bcd_to_dec(MaskLow(data[2], 127)),
     seconds     |-> bcd_to_dec(MaskLow(data[1], 127))]

\* The instant the fields r read back from the registers denote.
RegisterInstant(r) ==
    mktime(r.year, r.month, r.day, r.hours, r.minutes, r.seconds)

\* write_ds3231_time(year, month, day, hours, minutes, seconds).
write_ds3231_time(ext, bus, ds, y, mo, d, h, mi, sec) ==
    IF ~ext THEN [ok |-> FALSE, ds |-> ds]
    ELSE IF ByteArrayFails(EncodeRegisters(y, mo, d, h, mi, sec))
    THEN [ok |-> FALSE, ds |-> ds]
    ELSE IF ~bus THEN [ok |-> FALSE, ds |-> ds]
    ELSE [ok |-> TRUE,
          ds |-> RegisterInstant(DecodeRegisters(
                     EncodeRegisters(y, mo, d, h, mi, sec)))]

-----------------------------------------------------------------------------
(* handle_request, POST /update.  A form p gives each checkbox as a        *)
(* BOOLEAN (the key is present or not), each field read with               *)
(* params.get(key, default) as its value, and each field guarded by        *)
(* `if key in params` as None or Some(value).  The handler is a chain of   *)
(* steps over a context c = [s, np, strip, ext, rtc, ds, raised]; a step   *)
(* that raises leaves the context as the code left it at that line, and    *)
(* the steps after it do nothing (except Exception at line 1211).          *)

Num(v) == [num |-> TRUE, val |-> v]

NaN == [num |-> FALSE, val |-> 0]

\* hex_to_rgb: the colour string is the sequence of its two-digit groups.
HexOk(hex_color) == Len(hex_color) >= 3

hex_to_rgb(hex_color) == <<hex_color[1], hex_color[2], hex_color[3]>>

Raise(c) == [c EXCEPT !.raised = TRUE]

\* Lines 1128-1142.
StepLeds(c, p) ==
    IF ~p.num_leds.num THEN Raise(c)
    ELSE LET s1 == [c.s EXCEPT !.leds_enabled = p.leds_enabled,
                               !.num_leds = p.num_leds.val]
         IN  IF ~p.brightness.num THEN Raise([c EXCEPT !.s = s1])
             ELSE LET s2  == [s1 EXCEPT !.brightness = p.brightness.val,
                                        !.led_color_order = p.led_color_order]
                      out == IF c.s.num_leds # p.num_leds.val
                                \/ c.s.led_color_order # p.led_color_order
                             THEN initialize_neopixel(s2, c.rtc, c.np, c.strip)
                             ELSE [np |-> c.np, strip |-> c.strip]
                  IN  [c EXCEPT !.s = s2, !.np = out.np, !.strip = out.strip]

\* TIMEZONES.get(tz, 0).
TimezoneOffset(tz) == IF tz \in DOMAIN TIMEZONES THEN TIMEZONES[tz] ELSE 0

\* A timezone that is stored without looking up its offset.
StepTimezoneKeepsOffset(c, p) ==
    IF c.raised THEN c
    ELSE LET s1 == IF p.timezone = None THEN c.s
                   ELSE [c.s EXCEPT !.timezone = p.timezone[1]]
         IN  [c EXCEPT !.s = [s1 EXCEPT !.dst_region = p.dst_region,
                                        !.dst_enabled = p.dst_enabled]]

\* Lines 1152-1160.
StepTimezone(c, p) ==
    IF c.raised THEN c
    ELSE LET s1 == IF p.timezone = None THEN c.s
                   ELSE [c.s EXCEPT !.timezone = p.timezone[1],
                                    !.utc_offset_minutes =
                                        TimezoneOffset(p.timezone[1])]
         IN  [c EXCEPT !.s = [s1 EXCEPT !.dst_region = p.dst_region,
                                        !.dst_enabled = p.dst_enabled]]

\* An RTC setting that is stored without re-initializing the handle.
StepRtcSettingKeepsHandle(c, p, present) ==
    IF c.raised THEN c
    ELSE [c EXCEPT !.s = [c.s EXCEPT !.use_external_rtc = p.use_external_rtc]]

\* Lines 1162-1169.
StepRtcSetting(c, p, present) ==
    IF c.raised THEN c
    ELSE LET s1 == [c.s EXCEPT !.use_external_rtc = p.use_external_rtc]
         IN  IF c.s.use_external_rtc # p.use_external_rtc
             THEN [c EXCEPT !.s = s1,
                            !.ext = initialize_external_rtc(s1, present)]
             ELSE [c EXCEPT !.s = s1]

\* What ret holds after a call of sync_time_from_ds3231 with result sy.
SyncReturn(sy) ==
    [NoRet EXCEPT !.fn = "sync_time_from_ds3231", !.t = sy.rtc.secs,
                  !.active = sy.ok]

\* A time correction that reaches the machine clock only when the
\* registers were written.
SetClocksWhenWritten(c, secs, w) ==
    [c EXCEPT !.rtc = IF w.ok THEN [secs |-> secs, ms |-> 0] ELSE c.rtc,
              !.ds = w.ds,
              !.ret = [NoRet EXCEPT !.fn = "set_time_from_string",
                                    !.t = secs, !.active = w.ok]]

\* Lines 1112-1115: the machine clock is set to secs, then the registers
\* are written with result w; the context notes the call.
SetClocks(c, secs, w) ==
    [c EXCEPT !.rtc = [secs |-> secs, ms |-> 0],
              !.ds = w.ds,
              !.ret = [NoRet EXCEPT !.fn = "set_time_from_string",
                                    !.t = secs, !.active = w.ok]]

\* set_time_from_string (lines 1107-1115) on well-formed strings.
set_time_from_string(c, date_parts, time_parts, bus) ==
    SetClocks(c,
              mktime(date_parts[1], date_parts[2], date_parts[3],
                     time_parts[1], time_parts[2], 0),
              write_ds3231_time(c.ext, bus, c.ds,
                  date_parts[1], date_parts[2], date_parts[3],
                  time_parts[1], time_parts[2], 0))

\* Lines 1171-1173.
StepSetTime(c, p, bus) ==
    IF c.raised THEN c
    ELSE IF p.current_date = None \/ p.current_time = None THEN c
    ELSE IF Len(p.current_date[1]) < 3 \/ Len(p.current_time[1]) < 2
    THEN Raise(c)
    ELSE set_time_from_string(c, p.current_date[1], p.current_time[1], bus)

\* Lines 1175-1180.
StepTimes(c, p) ==
    IF c.raised THEN c
    ELSE LET s1 == IF p.wake_time = None THEN c.s
                   ELSE [c.s EXCEPT !.wake_time = p.wake_time[1]]
             s2 == IF p.bedtime = None THEN s1
                   ELSE [s1 EXCEPT !.bedtime = p.bedtime[1]]
         IN  [c EXCEPT !.s = [s2 EXCEPT !.bedtime_enabled = p.bedtime_enabled]]

\* settings[key] = hex_to_rgb(params[key]) under `if key in params`.
StepColor(c, field, key) ==
    IF c.raised \/ field = None THEN c
    ELSE IF ~HexOk(field[1]) THEN Raise(c)
    ELSE [c EXCEPT !.s = [c.s EXCEPT ![key] = hex_to_rgb(field[1])]]

\* settings[key] = int(params[key]) under `if key in params`.
StepInt(c, field, key) ==
    IF c.raised \/ field = None THEN c
    ELSE IF ~field[1].num THEN Raise(c)
    ELSE [c EXCEPT !.s = [c.s EXCEPT ![key] = field[1].val]]

\* settings[key] = key in params, for a checkbox.
StepFlag(c, flag, key) ==
    IF c.raised THEN c ELSE [c EXCEPT !.s = [c.s EXCEPT ![key] = flag]]

\* Lines 1128-1186: the handler down to transition_minutes.
ApplySchedule(c0, p, present, bus) ==
    StepInt(
      StepColor(
        StepColor(
          StepTimes(
            StepSetTime(
              StepRtcSetting(StepTimezone(StepLeds(c0, p), p), p, present),
              p, bus),
            p),
          p.stay_color, "stay_color"),
        p.wake_color, "wake_color"),
      p.transition_minutes, "transition_minutes")

\* Lines 1128-1200: the settings part of the handler, up to save_settings.
ApplyForm(c0, p, present, bus) ==
    StepInt(
      StepInt(
        StepFlag(
          StepInt(
            StepInt(
              StepFlag(ApplySchedule(c0, p, present, bus),
                       p.brightness_ramp_enabled, "brightness_ramp_enabled"),
              p.brightness_ramp_minutes, "brightness_ramp_minutes"),
            p.brightness_ramp_start, "brightness_ramp_start"),
          p.flash_enabled, "flash_enabled"),
        p.flash_duration, "flash_duration"),
      p.flash_interval, "flash_interval")

\* handle_request for a POST /update: ApplyForm, then save_settings() and
\* update_leds(); whatever is raised is caught at line 1211.  The result
\* holds every piece of program state the handler may change.
Handled(c, fst, lft, npv, stripv, ev, applied) ==
    [s |-> c.s, rtc |-> c.rtc, ext |-> c.ext, ds |-> c.ds,
     fst |-> fst, lft |-> lft, np |-> npv, strip |-> stripv,
     ev |-> ev, applied |-> applied, ret |-> c.ret]

\* Lines 1202-1203 after the form was applied with result u of update_leds.
AfterUpdate(c, u) == Handled(c, u.fst, u.lft, u.np, u.strip, u.ev, TRUE)

\* The handler's outcome for the context c the form left.
Respond(c, fst, lft, ev) ==
    IF c.raised THEN Handled(c, fst, lft, c.np, c.strip, ev, FALSE)
    ELSE AfterUpdate(c, update_leds(c.s, c.rtc, fst, lft, c.np, c.strip))

handle_request(s, clock, ext, ds, fst, lft, npv, stripv, ev, p, present, bus) ==
    Respond(ApplyForm([s |-> s, np |-> npv, strip |-> stripv, ext |-> ext,
                       rtc |-> clock, ds |-> ds, raised |-> FALSE,
                       ret |-> NoRet],
                      p, present, bus),
            fst, lft, ev)

-----------------------------------------------------------------------------
(* Inputs of the host-loop specification.                                  *)

At(y, mo, d, h, mi, sec, ms) == [secs |-> mktime(y, mo, d, h, mi, sec), ms |-> ms]

\* The instants at which the configuration specification observes the
\* loop, all on 2024-07-01 (UTC): before the transition window, inside it,
\* after wake time and after the default bedtime.
Instants ==
    {At(2024, 7, 1, 6, 29, 50, 0),
     At(2024, 7, 1, 6, 45, 11, 0),
     At(2024, 7, 1, 7, 0, 22, 0),
     At(2024, 7, 1, 21, 0, 6, 0)}

\* The instants of the flash specification: inside the minute 06:45
\* (200 ms and 600 ms apart, in both halves of a second, and past the
\* 10 s flash duration), the minute
\* after it, and the minute of the default bedtime.
FlashInstants ==
    {At(2024, 7, 1, 6, 45, 0, 0),
     At(2024, 7, 1, 6, 45, 0, 200),
     At(2024, 7, 1, 6, 45, 0, 400),
     At(2024, 7, 1, 6, 45, 0, 600),
     At(2024, 7, 1, 6, 45, 1, 0),
     At(2024, 7, 1, 6, 45, 11, 0),
     At(2024, 7, 1, 6, 45, 22, 0),
     At(2024, 7, 1, 6, 46, 5, 0),
     At(2024, 7, 1, 21, 0, 6, 0),
     At(2024, 7, 1, 21, 0, 17, 0)}

\* The machine clock at power-on: kept from before a soft reset.
BootInstants == {At(2024, 7, 1, 6, 29, 50, 0)}

\* The form the configuration page posts for the default settings with
\* the LEDs switched on; the date and time fields are left out.
BaseForm ==
    [leds_enabled            |-> TRUE,
     num_leds                |-> Num(12),
     brightness              |-> Num(100),
     led_color_order         |-> "RGB",
     timezone                |-> Some("UTC"),
     dst_region              |-> NoRegion,
     dst_enabled             |-> TRUE,
     use_external_rtc        |-> TRUE,
     current_date            |-> None,
     current_time            |-> None,
     wake_time               |-> Some(<<7, 0>>),
     bedtime                 |-> Some(<<21, 0>>),
     bedtime_enabled         |-> TRUE,
     stay_color              |-> Some(<<255, 0, 0>>),
     wake_color              |-> Some(<<0, 255, 0>>),
     transition_minutes      |-> Some(Num(30)),
     brightness_ramp_enabled |-> FALSE,
     brightness_ramp_minutes |-> Some(Num(15)),
     brightness_ramp_start   |-> Some(Num(10)),
     flash_enabled           |-> FALSE,
     flash_duration          |-> Some(Num(10)),
     flash_interval          |-> Some(Num(500))]

\* Well-formed forms: LEDs on; LEDs off; an unknown DST region with the
\* external clock switched off; a US timezone with DST.
ValidForms ==
    {BaseForm,
     [BaseForm EXCEPT !.leds_enabled = FALSE],
     [BaseForm EXCEPT !.dst_region = "XX", !.use_external_rtc = FALSE],
     [BaseForm EXCEPT !.timezone = Some("EST"), !.dst_region = "US"]}

\* Forms the handler accepts in part or in full although a field is out
\* of range or malformed: a negative LED count with the LEDs off, a wake
\* time without ':', a non-numeric brightness, a non-numeric transition.
InvalidForms ==
    {[BaseForm EXCEPT !.leds_enabled = FALSE, !.num_leds = Num(-1)],
     [BaseForm EXCEPT !.wake_time = Some(<<7>>)],
     [BaseForm EXCEPT !.leds_enabled = FALSE, !.brightness = NaN],
     [BaseForm EXCEPT !.dst_region = "US", !.transition_minutes = Some(NaN)]}

Forms == ValidForms \cup InvalidForms

\* The forms of the flash specification: flash at the default bedtime;
\* flash with a bedtime inside the transition window; LEDs off; the clock
\* set back to 06:44 with flash at 06:45.
FlashForms ==
    {[BaseForm EXCEPT !.flash_enabled = TRUE],
     [BaseForm EXCEPT !.flash_enabled = TRUE, !.bedtime = Some(<<6, 45>>)],
     [BaseForm EXCEPT !.leds_enabled = FALSE],
     [BaseForm EXCEPT !.flash_enabled = TRUE, !.bedtime = Some(<<6, 45>>),
                      !.current_date = Some(<<2024, 7, 1>>),
                      !.current_time = Some(<<6, 44>>)]}

-----------------------------------------------------------------------------
(* The program.                                                            *)

\* The state after the module's top-level assignments.  present is the
\* set of hardware set-ups considered (a DS3231 on the bus or not), boots
\* the values the machine clock may hold at power-on.
InitWith(present, boots) ==
    /\ settings = DefaultSettings
    /\ rtc \in boots
    /\ external_rtc = FALSE
    /\ ds_present \in present
    /\ ds_time = At(2024, 7, 1, 6, 29, 50, 0).secs
    /\ flash_start_time = None
    /\ last_flash_toggle = Epoch
    /\ np = None
    /\ strip = <<>>
    /\ last_update = Epoch
    /\ last_sync = Epoch
    /\ pc = "boot"
    /\ eval = NoEval
    /\ ret = NoRet

Init == InitWith(BOOLEAN, BootInstants)

\* main() up to the loop: turn_off_leds, load_settings (with
\* initialize_neopixel and initialize_external_rtc), the startup sync,
\* setup_network and the first update_leds().  network is TRUE when
\* setup_network returns an address.  An exception update_leds raises is
\* not caught: the program ends.
\* Lines 1252-1258: turn_off_leds(), load_settings() and the second
\* turn_off_leds() when the LEDs are disabled.
BootLeds(loaded, leds) ==
    IF ~loaded.leds_enabled THEN turn_off_leds(loaded, leds.np, leds.strip)
    ELSE leds

\* Lines 1261-1283: the startup sync and the first update_leds().
BootUpdate(loaded, ext, sy, leds) ==
    [ext |-> ext, rtc |-> sy.rtc, sy |-> sy,
     u   |-> update_leds(loaded, sy.rtc, flash_start_time,
                         last_flash_toggle, leds.np, leds.strip)]

BootSync(loaded, ext, bus, leds) ==
    BootUpdate(loaded, ext, sync_time_from_ds3231(ext, bus, rtc, ds_time), leds)

MainResult(loaded, bus) ==
    BootSync(loaded, initialize_external_rtc(loaded, ds_present), bus,
             BootLeds(loaded, initialize_neopixel(loaded, rtc, np, strip)))

Main(loaded, network, bus) ==
    /\ pc = "boot"
    /\ \E r \in {MainResult(loaded, bus)} :
           /\ settings' = loaded
           /\ external_rtc' = r.ext
           /\ rtc' = r.rtc
           /\ flash_start_time' = r.u.fst
           /\ last_flash_toggle' = r.u.lft
           /\ np' = r.u.np
           /\ strip' = r.u.strip
           /\ eval' = r.u.ev
           /\ pc' = IF r.u.raised THEN "halted"
                    ELSE IF network THEN "server" ELSE "offline"
           /\ last_update' = IF ~r.u.raised /\ network THEN r.rtc
                             ELSE last_update
           /\ last_sync' = IF ~r.u.raised /\ network THEN r.rtc
                           ELSE last_sync
           /\ ret' = IF r.ext THEN SyncReturn(r.sy) ELSE ret
    /\ UNCHANGED <<ds_present, ds_time>>

\* Whether instant a is later than instant b.
Later(a, b) == DiffMs(a, b) > 0

\* The DS3231 keeps time on its own: its registers after the machine clock
\* went from instant a to instant b.  Without a device there are none.
DsAfter(ds, a, b) == IF ds_present THEN ds + (b.secs - a.secs) ELSE ds

\* The request part of a loop iteration: nothing arrived, or handle_request.
Accept(req, bus) ==
    IF req = None
    THEN [s |-> settings, rtc |-> rtc, ext |-> external_rtc,
          ds |-> ds_time, fst |-> flash_start_time,
          lft |-> last_flash_toggle, np |-> np, strip |-> strip,
          ev |-> eval, applied |-> FALSE, ret |-> NoRet]
    ELSE handle_request(settings, rtc, external_rtc, ds_time,
             flash_start_time, last_flash_toggle, np, strip, eval,
             req[1], ds_present, bus)

\* Lines 1236-1238: the periodic update_leds(), h the state after Accept.
PeriodicUpdate(h) ==
    IF DiffMs(h.rtc, last_update) > 10000
    THEN [update_leds(h.s, h.rtc, h.fst, h.lft, h.np, h.strip)
             EXCEPT !.ev = [due |-> TRUE, ev |-> @]]
    ELSE [raised |-> FALSE, fst |-> h.fst, lft |-> h.lft,
          np |-> h.np, strip |-> h.strip,
          ev |-> [due |-> FALSE, ev |-> h.ev]]

\* Lines 1240-1242: the periodic resync.
PeriodicSync(h, bus) ==
    IF h.ext /\ DiffMs(h.rtc, last_sync) > 3600000
    THEN [due |-> TRUE, sy |-> sync_time_from_ds3231(h.ext, bus, h.rtc, h.ds)]
    ELSE [due |-> FALSE, sy |-> [ok |-> FALSE, rtc |-> h.rtc]]

\* One iteration of run_server's loop (lines 1229-1244): a POST /update is
\* handled if one arrived (req = Some(form)), update_leds() runs if more
\* than 10 s passed since the last periodic update, the clock is resynced
\* if more than 3600 s passed, and the iteration ends at instant t (the
\* sleep, and whatever time the iteration took).
ServerIteration(req, bus, ts) ==
    /\ pc = "server"
    /\ \E h \in {Accept(req, bus)} :
       \E u \in {PeriodicUpdate(h)} :
       \E y \in {PeriodicSync(h, bus)} :
           /\ settings' = h.s
           /\ external_rtc' = h.ext
           /\ flash_start_time' = u.fst
           /\ last_flash_toggle' = u.lft
           /\ np' = u.np
           /\ strip' = u.strip
           /\ eval' = u.ev.ev
           /\ IF u.raised
              THEN /\ pc' = "halted"
                   /\ rtc' = h.rtc
                   /\ ds_time' = h.ds
                   /\ ret' = IF h.ret.fn # "none" THEN h.ret ELSE ret
                   /\ UNCHANGED <<last_update, last_sync>>
              ELSE /\ pc' = "server"
                   /\ \E t \in ts :
                          /\ Later(t, y.sy.rtc)
                          /\ rtc' = t
                          /\ ds_time' = DsAfter(h.ds, y.sy.rtc, t)
                   /\ last_update' = IF u.ev.due THEN h.rtc ELSE last_update
                   /\ last_sync' = IF y.due THEN y.sy.rtc ELSE last_sync
                   /\ ret' = IF y.due THEN SyncReturn(y.sy)
                             ELSE IF h.ret.fn # "none" THEN h.ret
                             ELSE ret
    /\ UNCHANGED ds_present

\* Line 1292: the hourly resync of the offline loop.
OfflineSync(bus) ==
    IF external_rtc /\ rtc.secs % 3600 < 10
    THEN [due |-> TRUE,
          sy  |-> sync_time_from_ds3231(external_rtc, bus, rtc, ds_time)]
    ELSE [due |-> FALSE, sy |-> [ok |-> FALSE, rtc |-> rtc]]

\* One iteration of main's offline loop (lines 1290-1294): update_leds(),
\* the hourly resync when time.time() % 3600 < 10, then sleep(10).
OfflineIteration(bus, ts) ==
    /\ pc = "offline"
    /\ \E u \in {update_leds(settings, rtc, flash_start_time,
                             last_flash_toggle, np, strip)} :
       \E y \in {OfflineSync(bus)} :
           /\ flash_start_time' = u.fst
           /\ last_flash_toggle' = u.lft
           /\ np' = u.np
           /\ strip' = u.strip
           /\ eval' = u.ev
           /\ IF u.raised
              THEN /\ pc' = "halted"
                   /\ UNCHANGED <<rtc, ds_time, ret>>
              ELSE /\ pc' = "offline"
                   /\ \E t \in ts :
                          /\ DiffMs(t, y.sy.rtc) >= 10000
                          /\ rtc' = t
                          /\ ds_time' = DsAfter(ds_time, y.sy.rtc, t)
                   /\ ret' = IF y.due THEN SyncReturn(y.sy) ELSE ret
    /\ UNCHANGED <<settings, external_rtc, ds_present, last_update,
                   last_sync>>

\* The program's steps, the environment drawing its requests from forms
\* and the passing of time from instants.
NextOver(forms, instants) ==
    \/ \E loaded \in {DefaultSettings}, network \in BOOLEAN, bus \in BOOLEAN :
           Main(loaded, network, bus)
    \/ \E req \in {None} \cup {Some(f) : f \in forms}, bus \in BOOLEAN :
           ServerIteration(req, bus, instants)
    \/ \E bus \in BOOLEAN : OfflineIteration(bus, instants)

Next == NextOver(Forms, Instants)

\* The host loop under configuration changes.
Spec == Init /\ [][Next]_vars

NextFlash == NextOver(FlashForms, FlashInstants)

\* The host loop around bedtime, without an external clock.
SpecFlash == InitWith({FALSE}, BootInstants) /\ [][NextFlash]_vars

\* The durations (ms) of one loop iteration in the resync specification:
\* the sleep of the offline loop alone, and the sleep with half a second
\* of work.
TickMs == {10000, 10500}

\* How long (s) after power-on the resync specification follows the loop.
ResyncHorizon == 3660

\* The instant d milliseconds after instant a.
AddMs(a, d) ==
    [secs |-> a.secs + ((a.ms + d) \div 1000), ms |-> (a.ms + d) % 1000]

\* The instant at which the iteration that starts now ends.
NextTick ==
    {AddMs(rtc, d) : d \in {d \in TickMs :
        rtc.secs < At(2024, 7, 1, 6, 29, 50, 0).secs + ResyncHorizon}}

NextResync ==
    \/ \E network \in BOOLEAN : Main(DefaultSettings, network, TRUE)
    \/ ServerIteration(None, TRUE, NextTick)
    \/ OfflineIteration(TRUE, NextTick)

\* The host loop with a DS3231 that answers every transfer, no requests.
SpecResync == InitWith({TRUE}, BootInstants) /\ [][NextResync]_vars

\* Forms that carry the date and time fields: a correction to 05:00 and
\* one to 12:00 on 2024-07-01, each with a flash interval of 700 ms (a
\* field the handler reads after the time), and a date without its day.
SetTimeForms ==
    {[BaseForm EXCEPT !.current_date = Some(<<2024, 7, 1>>),
                      !.current_time = Some(<<5, 0>>),
                      !.flash_interval = Some(Num(700))],
     [BaseForm EXCEPT !.leds_enabled = FALSE,
                      !.current_date = Some(<<2024, 7, 1>>),
                      !.current_time = Some(<<12, 0>>),
                      !.flash_interval = Some(Num(700))],
     [BaseForm EXCEPT !.current_date = Some(<<2024, 7>>),
                      !.current_time = Some(<<5, 0>>)]}

\* How far (in hours) the registers of the DS3231 may run ahead of the
\* power-on instant before the passing of time is no longer followed.
DriftHours == 36

\* The instants of the loop under time corrections.
SetTimeInstants ==
    {t \in {At(2024, 7, 1, 6, 45, 11, 0), At(2024, 7, 1, 21, 0, 6, 0)} :
        ds_time < At(2024, 7, 1, 6, 29, 50, 0).secs + DriftHours * 3600}

NextSetTime == NextOver(SetTimeForms, SetTimeInstants)

\* The host loop under time corrections by the operator.
SpecSetTime == Init /\ [][NextSetTime]_vars

-----------------------------------------------------------------------------
(* One day of the offline loop under every schedule of ScheduleSettings:   *)
(* the device boots at midnight without network and update_leds runs at    *)
(* every minute of the day.                                                *)

ScheduleSettings ==
    {[DefaultSettings EXCEPT !.leds_enabled = TRUE,
                             !.wake_time = w,
                             !.bedtime = b,
                             !.bedtime_enabled = e,
                             !.transition_minutes = tm,
                             !.brightness_ramp_enabled = re,
                             !.brightness_ramp_minutes =
                                 IF re THEN 0 ELSE 15] :
        w \in {<<7, 0>>, <<0, 10>>},
        b \in {<<21, 0>>, <<6, 45>>, <<5, 0>>},
        e \in BOOLEAN,
        tm \in {0, 30},
        re \in BOOLEAN}

Midnight == At(2024, 7, 1, 0, 0, 0, 0)

\* The instant the loop wakes up next: one minute on, until the day is over.
NextMinute ==
    {t \in {[secs |-> rtc.secs + 60, ms |-> 0]} : rtc.secs < Midnight.secs + 86400}

NextSchedule ==
    \/ \E loaded \in ScheduleSettings : Main(loaded, FALSE, FALSE)
    \/ OfflineIteration(FALSE, NextMinute)

SpecSchedule == InitWith({FALSE}, {Midnight}) /\ [][NextSchedule]_vars

-----------------------------------------------------------------------------
(* The DST functions on their own: calculate_dst_transitions and           *)
(* is_dst_active called for the years 2001 .. 2001 + YearSpan,      *)
(* every region of DST_RULES and one that is missing, at the instants      *)
(* around the transitions and in mid-January and mid-July.                 *)

YearSpan == 27

DstYears == 2001 .. (2001 + YearSpan)

DstRegions == DOMAIN DST_RULES \cup {"XX"}

\* The Sundays of a month, by the calendar (weekday 6 of time.localtime).
SundaysOf(y, mo) ==
    {d \in 1..DaysInMonth(y, mo) :
        localtime(mktime(y, mo, d, 0, 0, 0)).weekday = 6}

\* The day of the n-th Sunday of a month, of the last one for n = -1.
NthSunday(y, mo, n) ==
    IF n > 0
    THEN CHOOSE d \in SundaysOf(y, mo) :
             Cardinality({e \in SundaysOf(y, mo) : e <= d}) = n
    ELSE CHOOSE d \in SundaysOf(y, mo) : \A e \in SundaysOf(y, mo) : e <= d

\* The instants at which a region's rule says DST starts and ends in year y.
SundayStart(y, region) ==
    mktime(y, DST_RULES[region].start_month,
           NthSunday(y, DST_RULES[region].start_month,
                     DST_RULES[region].start_week),
           DST_RULES[region].start_hour, 0, 0)

SundayEnd(y, region) ==
    mktime(y, DST_RULES[region].end_month,
           NthSunday(y, DST_RULES[region].end_month,
                     DST_RULES[region].end_week),
           DST_RULES[region].end_hour, 0, 0)

Around(t) == {t - 1, t, t + 1}

\* The instants is_dst_active is called with in year y for a region.
DstInstants(y, region) ==
    {mktime(y, 1, 1, 0, 0, 0), mktime(y, 1, 15, 12, 0, 0),
     mktime(y, 1, 31, 23, 59, 59), mktime(y, 7, 1, 0, 0, 0),
     mktime(y, 7, 15, 12, 0, 0), mktime(y, 7, 31, 23, 59, 59),
     mktime(y, 12, 31, 23, 59, 59)}
        \cup (IF region \in DOMAIN DST_RULES
              THEN Around(calculate_dst_transitions(y, region).start)
                       \cup Around(calculate_dst_transitions(y, region).end)
                       \cup Around(SundayStart(y, region))
                       \cup Around(SundayEnd(y, region))
              ELSE {})

\* The module as imported, main() not run; settings['dst_enabled'] is
\* either value, and ret names the year and region of the call to come.
InitDst ==
    /\ settings \in {DefaultSettings,
                     [DefaultSettings EXCEPT !.dst_enabled = FALSE]}
    /\ rtc \in BootInstants
    /\ external_rtc = FALSE
    /\ ds_present = FALSE
    /\ ds_time = At(2024, 7, 1, 6, 29, 50, 0).secs
    /\ flash_start_time = None
    /\ last_flash_toggle = Epoch
    /\ np = None
    /\ strip = <<>>
    /\ last_update = Epoch
    /\ last_sync = Epoch
    /\ pc = "dst"
    /\ eval = NoEval
    /\ ret \in {[NoRet EXCEPT !.year = y, !.region = region] :
                    y \in DstYears, region \in DstRegions}

CallDstTransitions(year, dst_region) ==
    /\ pc = "dst"
    /\ ret.fn = "none"
    /\ ret' = [fn |-> "calculate_dst_transitions", region |-> dst_region,
               year |-> year, t |-> 0,
               tr |-> calculate_dst_transitions(year, dst_region),
               active |-> FALSE,
               local |-> NoRet.local,
               value |-> NoRet.value,
               arg |-> NoRet.arg]
    /\ UNCHANGED <<settings, rtc, external_rtc, ds_present, ds_time,
                   flash_start_time, last_flash_toggle, np, strip,
                   last_update, last_sync, pc, eval>>

CallIsDstActive(current_time, dst_region) ==
    /\ pc = "dst"
    /\ ret.fn = "none"
    /\ ret' = [fn |-> "is_dst_active", region |-> dst_region,
               year |-> localtime(current_time).year, t |-> current_time,
               tr |-> NoTransitions,
               active |-> is_dst_active(settings, current_time, dst_region),
               local |-> NoRet.local,
               value |-> NoRet.value,
               arg |-> NoRet.arg]
    /\ UNCHANGED <<settings, rtc, external_rtc, ds_present, ds_time,
                   flash_start_time, last_flash_toggle, np, strip,
                   last_update, last_sync, pc, eval>>

NextDst ==
    \/ CallDstTransitions(ret.year, ret.region)
    \/ \E t \in DstInstants(ret.year, ret.region) :
           CallIsDstActive(t, ret.region)

SpecDst == InitDst /\ [][NextDst]_vars

-----------------------------------------------------------------------------
(* get_local_time on its own: the settings it reads and the machine clock  *)
(* are drawn at the start, the one action is the call.                     *)

\* The timezone and DST settings get_local_time reads.
LocalSettings ==
    {[DefaultSettings EXCEPT !.dst_enabled = en, !.dst_region = region,
                             !.utc_offset_minutes = off] :
        en \in BOOLEAN, region \in DstRegions \cup {NoRegion},
        off \in {TIMEZONES["UTC"], TIMEZONES["EST"], TIMEZONES["AEST"]}}

\* The values of the machine clock (UTC) at the call: mid-winter and
\* mid-summer, the year's first and last second, and the transitions
\* calculate_dst_transitions reports for 2024.
LocalInstants ==
    {At(2024, 1, 1, 0, 0, 0, 0), At(2024, 1, 15, 12, 0, 0, 0),
     At(2024, 7, 15, 12, 0, 0, 0), At(2024, 12, 31, 23, 59, 59, 0)}
        \cup {[secs |-> b + d, ms |-> 0] :
                 b \in UNION {{calculate_dst_transitions(2024, region).start,
                               calculate_dst_transitions(2024, region).end} :
                                 region \in DOMAIN DST_RULES},
                 d \in {-1, 0}}

InitLocal ==
    /\ settings \in LocalSettings
    /\ rtc \in LocalInstants
    /\ external_rtc = FALSE
    /\ ds_present = FALSE
    /\ ds_time = At(2024, 7, 1, 6, 29, 50, 0).secs
    /\ flash_start_time = None
    /\ last_flash_toggle = Epoch
    /\ np = None
    /\ strip = <<>>
    /\ last_update = Epoch
    /\ last_sync = Epoch
    /\ pc = "local"
    /\ eval = NoEval
    /\ ret = NoRet

CallGetLocalTime ==
    /\ pc = "local"
    /\ ret.fn = "none"
    /\ ret' = [fn |-> "get_local_time", region |-> settings.dst_region,
               year |-> localtime(rtc.secs).year,
               t |-> mktime_tuple(localtime(rtc.secs)),
               tr |-> NoTransitions,
               active |-> is_dst_active(settings, rtc.secs,
                                        settings.dst_region),
               local |-> get_local_time(settings, rtc),
               value |-> NoRet.value,
               arg |-> NoRet.arg]
    /\ UNCHANGED <<settings, rtc, external_rtc, ds_present, ds_time,
                   flash_start_time, last_flash_toggle, np, strip,
                   last_update, last_sync, pc, eval>>

SpecLocal == InitLocal /\ [][CallGetLocalTime]_vars

-----------------------------------------------------------------------------
(* sync_time_from_ds3231 on its own: the handle, the device, the two       *)
(* clocks are drawn at the start, the one action is the call.  The handle  *)
(* may be set while the device no longer answers (ds_present FALSE); the   *)
(* transfer then fails like one with a bus error.                          *)

\* Values of the machine clock at the call.
SyncInstants ==
    {At(2024, 7, 1, 6, 29, 50, 0), At(2024, 7, 1, 6, 29, 50, 300),
     At(2024, 7, 1, 6, 45, 11, 700), At(2024, 7, 1, 21, 0, 6, 0),
     At(2024, 12, 31, 23, 59, 59, 900), At(2025, 1, 1, 0, 0, 0, 0)}

\* Instants the registers of the DS3231 hold at the call.
SyncRegisters ==
    {At(2024, 7, 1, 6, 29, 50, 0).secs, At(2024, 7, 1, 6, 30, 2, 0).secs,
     At(2025, 1, 1, 0, 0, 0, 0).secs}

InitSync ==
    /\ settings = DefaultSettings
    /\ rtc \in SyncInstants
    /\ external_rtc \in BOOLEAN
    /\ ds_present \in BOOLEAN
    /\ ds_time \in SyncRegisters
    /\ flash_start_time = None
    /\ last_flash_toggle = Epoch
    /\ np = None
    /\ strip = <<>>
    /\ last_update = Epoch
    /\ last_sync = Epoch
    /\ pc = "sync"
    /\ eval = NoEval
    /\ ret = NoRet

CallSync(bus) ==
    /\ pc = "sync"
    /\ ret.fn = "none"
    /\ \E r \in {sync_time_from_ds3231(external_rtc, bus /\ ds_present,
                                        rtc, ds_time)} :
           /\ rtc' = r.rtc
           /\ ret' = [NoRet EXCEPT !.fn = "sync_time_from_ds3231",
                                   !.t = rtc.secs, !.active = r.ok]
    /\ UNCHANGED <<settings, external_rtc, ds_present, ds_time,
                   flash_start_time, last_flash_toggle, np, strip,
                   last_update, last_sync, pc, eval>>

SpecSync == InitSync /\ [][\E bus \in BOOLEAN : CallSync(bus)]_vars

-----------------------------------------------------------------------------
(* get_current_brightness on its own: the settings it reads and the        *)
(* machine clock are drawn at the start, the one action is the call.       *)

\* The brightness settings: ramp on or off, a wake time in the morning and
\* one ten minutes before midnight, ramps of 0, 1 and 15 minutes, a start
\* below and a start equal to the base brightness.
BrightnessSettings ==
    {[DefaultSettings EXCEPT !.brightness_ramp_enabled = en,
                             !.wake_time = w,
                             !.brightness_ramp_minutes = rm,
                             !.brightness_ramp_start = st,
                             !.brightness = base] :
        en \in BOOLEAN, w \in {<<7, 0>>, <<23, 50>>}, rm \in {0, 1, 15},
        st \in {10, 50}, base \in {100, 50}}

\* Minutes before, at the ends of and inside the ramps of both wake times.
BrightnessInstants ==
    {At(2024, 7, 1, h, m, 0, 0) : h \in {6}, m \in {59}}
        \cup {At(2024, 7, 1, 7, m, 0, 0) : m \in {0, 1, 7, 14, 15, 16}}
        \cup {At(2024, 7, 1, 23, m, 0, 0) : m \in {49, 50, 51, 57, 59}}
        \cup {At(2024, 7, 1, 0, m, 0, 0) : m \in {0, 4, 5}}

InitBrightness ==
    /\ settings \in BrightnessSettings
    /\ rtc \in BrightnessInstants
    /\ external_rtc = FALSE
    /\ ds_present = FALSE
    /\ ds_time = At(2024, 7, 1, 6, 29, 50, 0).secs
    /\ flash_start_time = None
    /\ last_flash_toggle = Epoch
    /\ np = None
    /\ strip = <<>>
    /\ last_update = Epoch
    /\ last_sync = Epoch
    /\ pc = "brightness"
    /\ eval = NoEval
    /\ ret = NoRet

CallGetCurrentBrightness ==
    /\ pc = "brightness"
    /\ ret.fn = "none"
    /\ ret' = [NoRet EXCEPT !.fn = "get_current_brightness",
                            !.t = get_current_minutes(settings, rtc),
                            !.value = get_current_brightness(settings, rtc)]
    /\ UNCHANGED <<settings, rtc, external_rtc, ds_present, ds_time,
                   flash_start_time, last_flash_toggle, np, strip,
                   last_update, last_sync, pc, eval>>

SpecBrightness == InitBrightness /\ [][CallGetCurrentBrightness]_vars

-----------------------------------------------------------------------------
(* A function called on its own: the module as loaded, ret.arg holding the *)
(* arguments of the call, one of args, and pc the name of the harness.     *)

InitCalls(harness, args) ==
    /\ settings = DefaultSettings
    /\ rtc \in BootInstants
    /\ external_rtc = FALSE
    /\ ds_present = FALSE
    /\ ds_time = At(2024, 7, 1, 6, 29, 50, 0).secs
    /\ flash_start_time = None
    /\ last_flash_toggle = Epoch
    /\ np = None
    /\ strip = <<>>
    /\ last_update = Epoch
    /\ last_sync = Epoch
    /\ pc = harness
    /\ eval = NoEval
    /\ ret \in {[NoRet EXCEPT !.arg = a] : a \in args}

-----------------------------------------------------------------------------
(* ease_in_out_cubic on its own, over the grids k/d of [0, 1].             *)

\* The finest grid.
EaseGrid == 30

\* The arguments: every k/d with d one of three denominators.
EaseArguments ==
    UNION {{[n |-> k, d |-> d] : k \in 0..d} : d \in {10, 20, EaseGrid}}

CallEase ==
    /\ pc = "ease"
    /\ ret.fn = "none"
    /\ ret' = [ret EXCEPT !.fn = "ease_in_out_cubic",
                          !.value = ease_in_out_cubic(ret.arg)]
    /\ UNCHANGED <<settings, rtc, external_rtc, ds_present, ds_time,
                   flash_start_time, last_flash_toggle, np, strip,
                   last_update, last_sync, pc, eval>>

SpecEase == InitCalls("ease", EaseArguments) /\ [][CallEase]_vars

-----------------------------------------------------------------------------
(* One day of the offline loop with the wake-up brightness ramp enabled:   *)
(* wake at 07:00, a 15-minute ramp, and a bedtime inside or far after the  *)
(* ramp window.                                                            *)

RampSettings ==
    {[DefaultSettings EXCEPT !.leds_enabled = TRUE,
                             !.wake_time = <<7, 0>>,
                             !.bedtime = b,
                             !.bedtime_enabled = e,
                             !.transition_minutes = 30,
                             !.brightness = base,
                             !.brightness_ramp_enabled = TRUE,
                             !.brightness_ramp_minutes = 15] :
        b \in {<<7, 5>>, <<21, 0>>},
        e \in BOOLEAN,
        base \in {100, 60}}

NextRamp ==
    \/ \E loaded \in RampSettings : Main(loaded, FALSE, FALSE)
    \/ OfflineIteration(FALSE, NextMinute)

SpecRamp == InitWith({FALSE}, {Midnight}) /\ [][NextRamp]_vars

-----------------------------------------------------------------------------
(* The register codec on its own: a time is written with                   *)
(* write_ds3231_time and the seven bytes are read back with                *)
(* read_ds3231_time.                                                       *)

\* The last year of the times written.
LastYear == 2099

\* The times written: every field runs over its whole range while the
\* other fields are all at their lowest or all at their highest value.
CodecArguments ==
    UNION {{[c EXCEPT !.year = v] : v \in 2000..LastYear}
           \cup {[c EXCEPT !.month = v] : v \in 1..12}
           \cup {[c EXCEPT !.day = v] : v \in 1..31}
           \cup {[c EXCEPT !.hours = v] : v \in 0..23}
           \cup {[c EXCEPT !.minutes = v] : v \in 0..59}
           \cup {[c EXCEPT !.seconds = v] : v \in 0..59} :
        c \in {[year |-> 2000, month |-> 1, day |-> 1, hours |-> 0,
                minutes |-> 0, seconds |-> 0],
               [year |-> LastYear, month |-> 12, day |-> 31, hours |-> 23,
                minutes |-> 59, seconds |-> 59]}}

\* write_ds3231_time(...) followed by read_ds3231_time().
CallWriteRead ==
    /\ pc = "codec"
    /\ ret.fn = "none"
    /\ ~ByteArrayFails(EncodeRegisters(ret.arg.year, ret.arg.month,
                           ret.arg.day, ret.arg.hours, ret.arg.minutes,
                           ret.arg.seconds))
    /\ ret' = [ret EXCEPT !.fn = "read_ds3231_time",
                          !.value = DecodeRegisters(EncodeRegisters(
                              ret.arg.year, ret.arg.month, ret.arg.day,
                              ret.arg.hours, ret.arg.minutes,
                              ret.arg.seconds))]
    /\ UNCHANGED <<settings, rtc, external_rtc, ds_present, ds_time,
                   flash_start_time, last_flash_toggle, np, strip,
                   last_update, last_sync, pc, eval>>

\* bcd_to_dec(dec_to_bcd(x)) for the two-digit year x.
CallBcd ==
    /\ pc = "codec"
    /\ ret.fn = "none"
    /\ ret' = [ret EXCEPT !.fn = "bcd_to_dec",
                          !.value = bcd_to_dec(dec_to_bcd(ret.arg.year - 2000))]
    /\ UNCHANGED <<settings, rtc, external_rtc, ds_present, ds_time,
                   flash_start_time, last_flash_toggle, np, strip,
                   last_update, last_sync, pc, eval>>

SpecCodec ==
    InitCalls("codec", CodecArguments) /\ [][CallWriteRead \/ CallBcd]_vars

-----------------------------------------------------------------------------
(* The host loop while the operator switches the external clock on and     *)
(* off: the settings file and every POST carry either value of             *)
(* use_external_rtc, with or without a time correction.                    *)

RtcForms ==
    {[f EXCEPT !.use_external_rtc = u] :
        f \in SetTimeForms \cup {BaseForm}, u \in BOOLEAN}

NextRtc ==
    \/ \E loaded \in {[DefaultSettings EXCEPT !.use_external_rtc = u] :
                          u \in BOOLEAN},
          network \in BOOLEAN, bus \in BOOLEAN :
           Main(loaded, network, bus)
    \/ \E req \in {None} \cup {Some(f) : f \in RtcForms}, bus \in BOOLEAN :
           ServerIteration(req, bus, SetTimeInstants)
    \/ \E bus \in BOOLEAN : OfflineIteration(bus, SetTimeInstants)

SpecRtc == Init /\ [][NextRtc]_vars

-----------------------------------------------------------------------------
(* get_nth_weekday_of_month on its own: every month of a common and of a   *)
(* leap year, every weekday, the ordinals 1 to 5 and -1 (last).            *)

NthArguments ==
    [year : {2023, 2024}, month : 1..12, weekday : 0..6,
     n : {-1, 1, 2, 3, 4, 5}]

CallNthWeekday ==
    /\ pc = "nth"
    /\ ret.fn = "none"
    /\ ret' = [ret EXCEPT !.fn = "get_nth_weekday_of_month",
                          !.value = get_nth_weekday_of_month(ret.arg.year,
                                        ret.arg.month, ret.arg.weekday,
                                        ret.arg.n)]
    /\ UNCHANGED <<settings, rtc, external_rtc, ds_present, ds_time,
                   flash_start_time, last_flash_toggle, np, strip,
                   last_update, last_sync, pc, eval>>

SpecNth == InitCalls("nth", NthArguments) /\ [][CallNthWeekday]_vars

-----------------------------------------------------------------------------
(* The host loop under POSTs whose fields no browser form would send: a    *)
(* timezone identifier in or outside TIMEZONES or none at all, and a       *)
(* brightness inside or outside 0..100.                                    *)

PostForms ==
    {[BaseForm EXCEPT !.timezone = tz, !.brightness = Num(b)] :
        tz \in {None, Some("UTC"), Some("EST"), Some("XYZ")},
        b \in {100, 200, -50}}

SpecPosts == Init /\ [][NextOver(PostForms, Instants)]_vars

-----------------------------------------------------------------------------
(* The host loop while the operator saves the configuration page as        *)
(* web_page rendered it: the date and time fields hold what                *)
(* get_current_date_str and get_current_time_str printed, the timezone is  *)
(* the one selected on the page.  No external clock is fitted.             *)

\* Lines 276-282 and 973-977: the form of the page rendered under settings
\* s at instant clock, the operator having selected timezone tz.
EchoForm(s, clock, tz) ==
    [BaseForm EXCEPT
        !.timezone = Some(tz),
        !.current_date = Some(<<get_local_time(s, clock).year,
                                get_local_time(s, clock).month,
                                get_local_time(s, clock).mday>>),
        !.current_time = Some(<<get_local_time(s, clock).hour,
                                get_local_time(s, clock).minute>>)]

NextEcho ==
    \/ \E network \in BOOLEAN, bus \in BOOLEAN :
           Main(DefaultSettings, network, bus)
    \/ \E req \in {None} \cup {Some(EchoForm(settings, rtc, tz)) :
                                    tz \in {"UTC", "EST"}},
          bus \in BOOLEAN :
           ServerIteration(req, bus, Instants \cup FlashInstants)
    \/ \E bus \in BOOLEAN : OfflineIteration(bus, Instants \cup FlashInstants)

SpecEcho == InitWith({FALSE}, BootInstants) /\ [][NextEcho]_vars

-----------------------------------------------------------------------------
(* Properties.  eval is the frame of the last update_leds call, strip the  *)
(* frame the LED driver last received, so a state predicate over them      *)
(* speaks of every evaluation a behaviour makes.                           *)

VisualStates == {"NIGHT", "TRANSITION", "DAY"}

\* The local minute at which the last evaluation ran.
EvalMinute == get_current_minutes(eval.cfg, eval.at)

\* Every pixel of the committed frame shows colour c.
StripShows(c) == strip # <<>> /\ \A i \in DOMAIN strip : strip[i] = c

\* The time strings update_leds parses under settings record s are well
\* formed.
TimesOk(s) == TimeOk(s.wake_time) /\ (s.bedtime_enabled => TimeOk(s.bedtime))

\* The state and colour of frame ev agree with minute m of a schedule
\* with wake minute wake, transition start ts and bedtime minute bed.
StateFits(ev, m, wake, ts, bed) ==
    /\ ev.state = "DAY" => m >= wake /\ ev.color = ev.cfg.wake_color
    /\ ev.state = "TRANSITION" =>
           /\ ts <= m /\ m < wake
           /\ ev.color = interpolate_color(ev.cfg.stay_color,
                             ev.cfg.wake_color,
                             [n |-> m - ts, d |-> ev.cfg.transition_minutes])
    /\ ev.state = "NIGHT" =>
           /\ ev.color = ev.cfg.stay_color
           /\ m < ts \/ (ev.cfg.bedtime_enabled /\ m >= bed)

\* C1: for every schedule (wake minute, transition minutes, bedtime minute,
\* bedtime enabled or not) and every minute of the day, update_leds returns
\* normally having selected exactly one of NIGHT, TRANSITION and DAY, and
\* shows that state's colour: the stay colour for NIGHT, the interpolated
\* colour inside [transition_start, wake) for TRANSITION, the wake colour
\* from the wake minute on for DAY.
C1_ExactlyOneState ==
    eval.state # "NONE" =>
        /\ Cardinality({st \in VisualStates : st = eval.state}) = 1
        /\ StateFits(eval, EvalMinute, time_to_minutes(eval.cfg.wake_time),
                     time_to_minutes(eval.cfg.wake_time)
                         - eval.cfg.transition_minutes,
                     time_to_minutes(eval.cfg.bedtime))
        /\ StripShows(eval.color)
        /\ pc # "halted"

\* C1 at work: a minute inside a transition window that starts before
\* midnight (transition_start < 0).
C1_Witness ==
    /\ eval.state = "TRANSITION"
    /\ time_to_minutes(eval.cfg.wake_time) < eval.cfg.transition_minutes
    /\ EvalMinute = 5

\* C2: every update_leds evaluation made while leds_enabled is false
\* leaves every pixel of the strip at (0, 0, 0).
C2_DisabledAllOff ==
    eval.state = "OFF" => \A i \in DOMAIN strip : strip[i] = Off

\* C3: whatever the external clock does (absent, disabled, or failing its
\* reads), an evaluation under a DST region that is unset or missing from
\* DST_RULES, with well-formed time strings, returns normally with a visual
\* state (a state colour, or all-off when the LEDs are disabled) and the
\* loop goes on.
C3_TickYieldsState ==
    (/\ eval.state # "NONE"
     /\ eval.cfg.dst_region \notin DOMAIN DST_RULES
     /\ eval.cfg.leds_enabled => TimesOk(eval.cfg))
        => /\ eval.state \in VisualStates \cup {"OFF"}
           /\ eval.cfg.leds_enabled => StripShows(eval.color)
           /\ pc # "halted"

\* C3 at work: the server loop evaluated a state without an external clock
\* handle and with a DST region DST_RULES does not hold.
C3_Witness ==
    /\ pc = "server"
    /\ ~external_rtc
    /\ eval.cfg.dst_region = "XX"
    /\ eval.state \in VisualStates
    /\ StripShows(eval.color)

\* C4: a malformed wake_time or bedtime stored by handle_request is never
\* fatal: the loop keeps ticking.
C4_MalformedTimeNotFatal ==
    (~TimeOk(settings.wake_time) \/ ~TimeOk(settings.bedtime))
        => pc # "halted"

\* The context handle_request starts from under settings record s.
FormContext(s) ==
    [s |-> s, np |-> None, strip |-> <<>>, ext |-> FALSE, rtc |-> Epoch,
     ds |-> 0, raised |-> FALSE]

\* The settings records that a POST applied in full leaves: every form
\* carries every field, so the record depends on the form alone.
CommittedRecords ==
    {ApplyForm(FormContext(DefaultSettings), p, FALSE, FALSE).s :
        p \in {q \in Forms :
                  ~ApplyForm(FormContext(DefaultSettings), q, FALSE, FALSE).raised}}

\* C5: every evaluation observes a settings record that is the initial one
\* or one a POST applied in full; never one with only some fields of a
\* failed POST applied.
C5_ConsistentSnapshot ==
    eval.state # "NONE" =>
        eval.cfg = DefaultSettings \/ eval.cfg \in CommittedRecords

\* C6: with LEDs, bedtime and flash enabled, an evaluation at the bedtime
\* minute that finds no session starts one, and the flash overlay is
\* active in that evaluation, whatever the schedule.
C6_SessionStartsAtBedtime ==
    (/\ eval.state \in VisualStates
     /\ eval.cfg.leds_enabled
     /\ eval.cfg.bedtime_enabled
     /\ eval.cfg.flash_enabled
     /\ eval.cfg.flash_duration > 0
     /\ eval.session = None
     /\ EvalMinute = time_to_minutes(eval.cfg.bedtime))
        => flash_start_time # None /\ eval.flash

\* C7: after an evaluation at a local minute other than the bedtime minute
\* no flash session is active, whatever the LED-enabled flag and the state.
C7_SessionClearedOffBedtime ==
    (/\ eval.state \in VisualStates \cup {"OFF"}
     /\ TimeOk(eval.cfg.bedtime)
     /\ EvalMinute # time_to_minutes(eval.cfg.bedtime))
        => flash_start_time = None

\* The last evaluation ran with the flash overlay active on a 500 ms
\* interval.
Flashing(ev) == ev.flash /\ ev.cfg.flash_interval = 500

\* C8 as stated: with flash_interval = 500 ms, of two successive evaluations
\* of a flash session the second leaves the output as it was when it runs
\* 200 ms after the first, and changes it when it runs 600 ms after.
C8_StableThenAlternates ==
    [][(/\ Flashing(eval)
        /\ Flashing(eval')
        /\ eval'.session = flash_start_time
        /\ flash_start_time' = flash_start_time)
           => /\ DiffMs(eval'.at, eval.at) = 200 => strip' = strip
              /\ DiffMs(eval'.at, eval.at) = 600 => strip' # strip]_vars

\* C8 amended: with flash_interval = 500 ms, an evaluation of an active
\* session that runs at least 500 ms after the last toggle records the
\* toggle and shows the state's colour in the first half of a second
\* (floor(now / 0.5) even) and off in the second half; one that runs sooner
\* toggles nothing.
C8_PhaseByWindow ==
    Flashing(eval) =>
        IF DiffMs(eval.at, eval.toggle) >= 500
        THEN /\ last_flash_toggle = eval.at
             /\ StripShows(IF eval.at.ms < 500 THEN eval.color ELSE Off)
        ELSE last_flash_toggle = eval.toggle

\* C8 at work: a toggling evaluation in the second half of a second turned
\* the strip off during a session.
C8_Witness ==
    /\ Flashing(eval)
    /\ eval.at.ms = 600
    /\ last_flash_toggle = eval.at
    /\ flash_start_time # None
    /\ StripShows(Off)

\* C9: the DST start and end calculate_dst_transitions returns are the
\* N-th (or last) Sunday of the rule's months at the rule's hours.
C9_BoundariesOnSunday ==
    (ret.fn = "calculate_dst_transitions" /\ ret.tr.ok) =>
        /\ ret.tr.start = SundayStart(ret.year, ret.region)
        /\ ret.tr.end = SundayEnd(ret.year, ret.region)

\* C10: for US, EU and UK with DST enabled, is_dst_active(t) is true
\* exactly when t lies in [start boundary, end boundary) of t's year.
C10_ActiveInsideWindow ==
    (/\ ret.fn = "is_dst_active"
     /\ settings.dst_enabled
     /\ ret.region \in {"US", "EU", "UK"})
        => (ret.active <=> /\ SundayStart(ret.year, ret.region) <= ret.t
                           /\ ret.t < SundayEnd(ret.year, ret.region))

\* C11: for the rule whose window wraps the year end (AU) and DST enabled,
\* is_dst_active(t) holds exactly when t is at or after the start boundary
\* (first Sunday of October, 02:00) or before the end boundary (first Sunday
\* of April, 03:00) of t's calendar year.
C11_ActiveOutsideGap ==
    (ret.fn = "is_dst_active" /\ settings.dst_enabled /\ ret.region = "AU")
        => (ret.active
                <=> \/ ret.t >= SundayStart(ret.year, ret.region)
                    \/ ret.t < SundayEnd(ret.year, ret.region))

\* C12: get_local_time returns the UTC instant plus utc_offset_minutes, plus
\* the rule's offset_minutes exactly when DST is enabled, the configured
\* region is in the rule table and is_dst_active holds for the UTC instant;
\* otherwise it returns the UTC instant plus utc_offset_minutes only.
C12_LocalTimeOffsets ==
    ret.fn = "get_local_time"
        => /\ ret.t = rtc.secs
           /\ ret.local = localtime(
                  ret.t + settings.utc_offset_minutes * 60
                      + (IF /\ settings.dst_enabled
                            /\ settings.dst_region \in DOMAIN DST_RULES
                            /\ ret.active
                         THEN DST_RULES[settings.dst_region].offset_minutes * 60
                         ELSE 0))

\* A call during US daylight time with the EST base offset: four hours
\* behind UTC.
C12_Witness ==
    /\ ret.fn = "get_local_time"
    /\ settings.dst_region = "US"
    /\ settings.utc_offset_minutes = -300
    /\ ret.active
    /\ mktime_tuple(ret.local) = ret.t - 4 * 3600

\* C13: with DST region US and dst_enabled true, is_dst_active returns true
\* for every instant in July and false for every instant in January, in
\* every year.
C13_UsJulyOnJanuaryOff ==
    (ret.fn = "is_dst_active" /\ settings.dst_enabled /\ ret.region = "US")
        => /\ localtime(ret.t).month = 7 => ret.active
           /\ localtime(ret.t).month = 1 => ~ret.active

\* The last second of July in a US call that reports DST active.
C13_Witness ==
    /\ ret.fn = "is_dst_active"
    /\ settings.dst_enabled
    /\ ret.region = "US"
    /\ ret.t = mktime(ret.year, 7, 31, 23, 59, 59)
    /\ ret.active

\* C14: when sync_time_from_ds3231 fails (no handle, or the register read
\* fails) it reports failure and the machine clock is exactly what it was
\* before the call.
C14_FailedSyncKeepsClock ==
    [][(ret'.fn = "sync_time_from_ds3231" /\ ret.fn = "none" /\ ~ret'.active)
           => rtc' = rtc]_vars

\* A failed call with the handle set, the clock differing from the
\* registers and holding a fraction of a second.
C14_Witness ==
    /\ ret.fn = "sync_time_from_ds3231"
    /\ ~ret.active
    /\ external_rtc
    /\ rtc.secs = ret.t
    /\ rtc.secs # ds_time
    /\ rtc.ms # 0

\* C15: when a time correction is applied and the write to the external
\* clock fails, the machine clock holds the corrected time for the rest of
\* the handler (its update_leds reads it), the fields after the time are
\* applied, and the loop goes on to its next iteration.
C15_FailedWriteNotFatal ==
    [][(ret'.fn = "set_time_from_string" /\ ret' # ret /\ ~ret'.active)
           => /\ eval'.at = [secs |-> ret'.t, ms |-> 0]
              /\ eval'.cfg = settings'
              /\ settings'.flash_interval = 700
              /\ pc' = "server"
              /\ Later(rtc', eval'.at)]_vars

\* A correction handled with the handle set and the bus failing: the
\* registers keep another time than the machine clock.
C15_Witness ==
    /\ ret.fn = "set_time_from_string"
    /\ ~ret.active
    /\ external_rtc
    /\ pc = "server"
    /\ settings.flash_interval = 700
    /\ eval.at.secs = ret.t
    /\ ds_time # rtc.secs

\* C16: while an external clock is present the machine clock is resynced
\* at startup and then at least once in every 3600 s plus one loop
\* iteration (at most 11 s here), in run_server's loop as in the offline
\* loop of main.
C16_ResyncedEveryHour ==
    (pc \in {"server", "offline"} /\ external_rtc)
        => /\ ret.fn = "sync_time_from_ds3231"
           /\ ret.active
           /\ rtc.secs - ret.t <= 3600 + 11

\* One channel of the eased interpolation at progress n/d, truncated:
\* c1 + (c2 - c1) * f(n/d) with f(x) = 4x^3 below 1/2 and
\* 1 - (2 - 2x)^3 / 2 from 1/2 on.
EasedChannel(c1, c2, n, d) ==
    IF 2 * n < d
    THEN TruncDiv(c1 * d * d * d + (c2 - c1) * 4 * n * n * n, d * d * d)
    ELSE TruncDiv(c1 * 2 * d * d * d
                      + (c2 - c1) * (2 * d * d * d
                                       - (2 * d - 2 * n) * (2 * d - 2 * n)
                                             * (2 * d - 2 * n)),
                  2 * d * d * d)

\* One channel of the linear interpolation at progress n/d, truncated.
LinearChannel(c1, c2, n, d) == TruncDiv(c1 * d + (c2 - c1) * n, d)

\* Colour c lies between colours a and b in every channel.
BetweenColors(c, a, b) ==
    \A k \in 1..3 :
        \/ a[k] <= c[k] /\ c[k] <= b[k]
        \/ b[k] <= c[k] /\ c[k] <= a[k]

\* Frame ev at minute m of a schedule with wake minute wake, transition
\* start ts and bedtime minute bed shows the colour C17 names.
GradientFits(ev, m, wake, ts, bed) ==
    /\ m = ts => ev.color = ev.cfg.stay_color
    /\ (ts < m /\ m < wake) =>
           /\ BetweenColors(ev.color, ev.cfg.stay_color, ev.cfg.wake_color)
           /\ ev.color = [k \in 1..3 |->
                  EasedChannel(ev.cfg.stay_color[k], ev.cfg.wake_color[k],
                               m - ts, wake - ts)]
           /\ 2 * (m - ts) # wake - ts =>
                  ev.color # [k \in 1..3 |->
                      LinearChannel(ev.cfg.stay_color[k],
                                    ev.cfg.wake_color[k], m - ts, wake - ts)]
    /\ m = wake => ev.color = ev.cfg.wake_color
    /\ m = bed => ev.color = ev.cfg.stay_color
    /\ (m = bed \/ (ts <= m /\ m <= wake)) => StripShows(ev.color)

\* C17: with LEDs enabled, brightness 100, ramp and flash disabled, bedtime
\* enabled with bedtime minute > wake minute and transition_minutes > 0,
\* the output is the stay colour at the start of the transition window,
\* the eased (not the linear) interpolation between the two colours
\* strictly inside it, the wake colour at the wake minute and the stay
\* colour at the bedtime minute.
C17_GradientEndpoints ==
    (/\ eval.state \in VisualStates
     /\ eval.cfg.leds_enabled
     /\ eval.cfg.brightness = 100
     /\ ~eval.cfg.brightness_ramp_enabled
     /\ ~eval.cfg.flash_enabled
     /\ eval.cfg.bedtime_enabled
     /\ time_to_minutes(eval.cfg.bedtime) > time_to_minutes(eval.cfg.wake_time)
     /\ eval.cfg.transition_minutes > 0)
        => GradientFits(eval, EvalMinute, time_to_minutes(eval.cfg.wake_time),
                        time_to_minutes(eval.cfg.wake_time)
                            - eval.cfg.transition_minutes,
                        time_to_minutes(eval.cfg.bedtime))

\* 06:40 of the schedule 06:30 - 07:00 - 21:00: a third of the way, where
\* the eased colour is still close to the stay colour.
C17_Witness ==
    /\ eval.state = "TRANSITION"
    /\ eval.cfg.bedtime_enabled
    /\ eval.cfg.wake_time = <<7, 0>>
    /\ eval.cfg.bedtime = <<21, 0>>
    /\ EvalMinute = 400
    /\ eval.color = <<217, 37, 0>>
    /\ StripShows(<<217, 37, 0>>)

\* The cubic ease-in-out of n/d as a fraction: 4x^3 below 1/2 and
\* 1 - (2 - 2x)^3 / 2 from 1/2 on.
EasedFraction(n, d) ==
    IF 2 * n < d THEN [n |-> 4 * n * n * n, d |-> d * d * d]
    ELSE [n |-> 2 * d * d * d - (2 * d - 2 * n) * (2 * d - 2 * n)
                                    * (2 * d - 2 * n),
          d |-> 2 * d * d * d]

\* a / b = c / d for b, d > 0, compared by whole part and remainder so
\* that no product leaves the 32-bit integers.
SameFraction(a, b, c, d) ==
    /\ a \div b = c \div d
    /\ (a % b) * d = (c % d) * b

\* Fraction v is start + (base - start) * e for the fraction e.
OnRamp(v, start, base, e) ==
    SameFraction(v.n, v.d, start * e.d + (base - start) * e.n, e.d)

\* The brightness v returned at minute m for wake minute wake under
\* settings record s is the one C18 names.
BrightnessFits(v, s, m, wake) ==
    IF \/ ~s.brightness_ramp_enabled
       \/ m < wake
       \/ m >= wake + s.brightness_ramp_minutes
    THEN v.n = s.brightness * v.d
    ELSE /\ OnRamp(v, s.brightness_ramp_start, s.brightness,
                   EasedFraction(m - wake, s.brightness_ramp_minutes))
         /\ m = wake => v.n = s.brightness_ramp_start * v.d
         /\ (m > wake /\ s.brightness_ramp_start < s.brightness) =>
                /\ s.brightness_ramp_start * v.d < v.n
                /\ v.n < s.brightness * v.d

\* C18: get_current_brightness returns the base brightness when the ramp
\* is disabled, before the wake minute and from wake + ramp_minutes on;
\* inside the ramp it returns ramp_start + (base - ramp_start) * ease of
\* the elapsed share: ramp_start at the wake minute, and a value strictly
\* between ramp_start and base afterwards (when ramp_start < base).
C18_BrightnessRamp ==
    ret.fn = "get_current_brightness"
        => BrightnessFits(ret.value, settings, ret.t,
                          time_to_minutes(settings.wake_time))

\* 07:07 of a 15-minute ramp from 10 to 100 after 07:00: between 46 and 47.
C18_Witness ==
    /\ ret.fn = "get_current_brightness"
    /\ settings.brightness_ramp_enabled
    /\ settings.wake_time = <<7, 0>>
    /\ settings.brightness_ramp_minutes = 15
    /\ settings.brightness_ramp_start = 10
    /\ settings.brightness = 100
    /\ ret.t = 427
    /\ 46 * ret.value.d < ret.value.n
    /\ ret.value.n < 47 * ret.value.d

\* Frame ev at minute m shows an instantaneous switch at wake minute wake.
SwitchFits(ev, m, wake) ==
    /\ ev.state \in {"NIGHT", "DAY"}
    /\ m = wake - 1 => ev.color = ev.cfg.stay_color
    /\ m = wake => ev.state = "DAY" /\ ev.color = ev.cfg.wake_color
    /\ StripShows(ev.color)

\* C19: with transition_minutes = 0 (and a ramp, when enabled, of 0
\* minutes) no evaluation divides by zero: update_leds returns normally,
\* TRANSITION is never selected, and the output goes from the stay colour
\* at wake_minute - 1 directly to the wake colour at wake_minute.
C19_ZeroTransitionSwitches ==
    (/\ eval.state # "NONE"
     /\ eval.cfg.leds_enabled
     /\ TimesOk(eval.cfg)
     /\ eval.cfg.transition_minutes = 0
     /\ eval.cfg.brightness_ramp_enabled =>
            eval.cfg.brightness_ramp_minutes = 0)
        => /\ pc # "halted"
           /\ SwitchFits(eval, EvalMinute,
                         time_to_minutes(eval.cfg.wake_time))

\* The wake minute itself with both durations zero and the ramp enabled.
C19_Witness ==
    /\ eval.cfg.transition_minutes = 0
    /\ eval.cfg.brightness_ramp_enabled
    /\ eval.cfg.brightness_ramp_minutes = 0
    /\ EvalMinute = time_to_minutes(eval.cfg.wake_time)
    /\ eval.state = "DAY"
    /\ StripShows(eval.cfg.wake_color)
    /\ pc = "offline"

\* C20: after an evaluation that observes a configuration with flash
\* disabled or bedtime disabled no flash session is active, whatever state
\* the evaluation selected and whether or not the LEDs are enabled.
C20_SessionResetWhenDisabled ==
    (/\ eval.state \in VisualStates \cup {"OFF"}
     /\ ~eval.cfg.flash_enabled \/ ~eval.cfg.bedtime_enabled)
        => flash_start_time = None

\* The numerator of the fraction v over the denominator 2 * d^3.
EaseNumerator(v, d) == v.n * ((2 * d * d * d) \div v.d)

\* The value v returned for the argument n/d has the shape C21 names.
EaseFits(v, n, d) ==
    /\ (2 * d * d * d) % v.d = 0
    /\ 2 * n < d => EaseNumerator(v, d) = 8 * n * n * n
    /\ 2 * n >= d =>
           EaseNumerator(v, d) =
               2 * d * d * d - (2 * d - 2 * n) * (2 * d - 2 * n) * (2 * d - 2 * n)
    /\ n = 0 => v.n = 0
    /\ n = d => v.n = v.d
    /\ 2 * n = d => 2 * v.n = v.d
    /\ \A k \in 0..n :
           EaseNumerator(ease_in_out_cubic([n |-> k, d |-> d]), d)
               <= EaseNumerator(v, d)

\* C21: ease_in_out_cubic is 4t^3 below 1/2 and 1 - (-2t+2)^3 / 2 from 1/2
\* on, takes 0 to 0, 1/2 to 1/2 and 1 to 1, and is non-decreasing over
\* the grid points of [0, 1].
C21_EaseShape ==
    ret.fn = "ease_in_out_cubic" => EaseFits(ret.value, ret.arg.n, ret.arg.d)

\* The call at 1/2, the point where the two branches meet.
C21_Witness ==
    /\ ret.fn = "ease_in_out_cubic"
    /\ ret.arg = [n |-> 15, d |-> 30]
    /\ 2 * ret.value.n = ret.value.d

\* Frame ev at minute m, under a bedtime later in the day than the wake
\* minute, is NIGHT exactly at or after bedtime and before the transition
\* start, and DAY exactly from the wake minute up to bedtime.
OrdinaryNightFits(ev, m, wake, ts, bed) ==
    /\ ev.state = "NIGHT" <=> (m >= bed \/ m < ts)
    /\ ev.state = "NIGHT" => ev.color = ev.cfg.stay_color
    /\ ev.state = "DAY" <=> (wake <= m /\ m < bed)

\* C22: with bedtime enabled and bedtime_minute > wake_minute, update_leds
\* selects NIGHT (stay color) exactly for the minutes m >= bedtime_minute
\* or m < transition_start, and DAY from wake_minute up to, but not
\* including, bedtime_minute.
C22_OrdinaryNightPeriod ==
    (/\ eval.state # "NONE"
     /\ eval.cfg.bedtime_enabled
     /\ time_to_minutes(eval.cfg.bedtime) > time_to_minutes(eval.cfg.wake_time))
        => OrdinaryNightFits(eval, EvalMinute,
                             time_to_minutes(eval.cfg.wake_time),
                             time_to_minutes(eval.cfg.wake_time)
                                 - eval.cfg.transition_minutes,
                             time_to_minutes(eval.cfg.bedtime))

\* The bedtime minute 21:00 of a schedule that wakes at 07:00: the first
\* NIGHT minute of the evening.
C22_Witness ==
    /\ eval.state = "NIGHT"
    /\ eval.cfg.bedtime_enabled
    /\ eval.cfg.wake_time = <<7, 0>>
    /\ eval.cfg.bedtime = <<21, 0>>
    /\ EvalMinute = 1260
    /\ StripShows(eval.cfg.stay_color)

\* Frame ev at minute m, under a bedtime not later in the day than the
\* wake minute, came from the stay branch exactly for bed <= m < ts, and
\* is DAY from the wake minute on.
EarlyNightFits(ev, m, wake, ts, bed) ==
    /\ ev.stay <=> (bed <= m /\ m < ts)
    /\ ev.stay => ev.state = "NIGHT"
    /\ m >= wake => ev.state = "DAY" /\ ev.color = ev.cfg.wake_color

\* C23: with bedtime enabled and bedtime_minute <= wake_minute, the night
\* period of update_leds is exactly bedtime_minute <= m < transition_start,
\* without wrap-around: the minutes m >= wake_minute are DAY up to
\* midnight.
C23_EarlyBedtimeNoWrap ==
    (/\ eval.state # "NONE"
     /\ eval.cfg.bedtime_enabled
     /\ time_to_minutes(eval.cfg.bedtime) <= time_to_minutes(eval.cfg.wake_time))
        => EarlyNightFits(eval, EvalMinute,
                          time_to_minutes(eval.cfg.wake_time),
                          time_to_minutes(eval.cfg.wake_time)
                              - eval.cfg.transition_minutes,
                          time_to_minutes(eval.cfg.bedtime))

\* The last minute of the day under bedtime 05:00 and wake 07:00: DAY,
\* although it lies after bedtime.
C23_Witness ==
    /\ eval.state = "DAY"
    /\ eval.cfg.bedtime_enabled
    /\ eval.cfg.wake_time = <<7, 0>>
    /\ eval.cfg.bedtime = <<5, 0>>
    /\ EvalMinute = 1439
    /\ ~eval.stay

\* Frame ev at minute m has the state the wake minute and the transition
\* start alone determine.
WakeLogicFits(ev, m, wake, ts) ==
    /\ ev.state = "DAY" <=> m >= wake
    /\ ev.state = "TRANSITION" <=> (ts <= m /\ m < wake)
    /\ ev.state = "NIGHT" <=> m < ts

\* C24: when bedtime is disabled, or the minute is not in the night
\* period, the state is DAY iff m >= wake_minute, TRANSITION iff
\* transition_start <= m < wake_minute, and NIGHT iff m < transition_start.
C24_WakeLogicOutsideNight ==
    (/\ eval.state # "NONE"
     /\ ~eval.cfg.bedtime_enabled \/ ~eval.stay)
        => WakeLogicFits(eval, EvalMinute,
                         time_to_minutes(eval.cfg.wake_time),
                         time_to_minutes(eval.cfg.wake_time)
                             - eval.cfg.transition_minutes)

\* Minute 06:30 with bedtime disabled, wake 07:00 and a 30-minute
\* transition: the first TRANSITION minute.
C24_Witness ==
    /\ eval.state = "TRANSITION"
    /\ ~eval.cfg.bedtime_enabled
    /\ eval.cfg.wake_time = <<7, 0>>
    /\ eval.cfg.transition_minutes = 30
    /\ EvalMinute = 390

\* Frame ev at minute m lies in the window of tm minutes that ends at
\* the wake minute, counted around midnight: it is a TRANSITION frame
\* whose colour is interpolated at the share of the window elapsed.
WrappedWindowFits(ev, m, wake, tm) ==
    /\ ev.state = "TRANSITION"
    /\ ev.color = interpolate_color(ev.cfg.stay_color, ev.cfg.wake_color,
                       [n |-> (m - (wake - tm)) % 1440, d |-> tm])

\* C25: the transition window is the transition_minutes minutes before
\* wake_minute on the 1440-minute clock also when transition_start is
\* negative: with bedtime disabled and wake_minute < transition_minutes,
\* the minutes in [1440 + transition_start, 1440) of the evening before
\* and the minutes in [0, wake_minute) are TRANSITION, with a progress
\* that grows from 0 across midnight up to the wake minute.
C25_TransitionWrapsMidnight ==
    (/\ eval.state # "NONE"
     /\ ~eval.cfg.bedtime_enabled
     /\ time_to_minutes(eval.cfg.wake_time) < eval.cfg.transition_minutes
     /\ \/ EvalMinute < time_to_minutes(eval.cfg.wake_time)
        \/ EvalMinute >= 1440 + time_to_minutes(eval.cfg.wake_time)
                              - eval.cfg.transition_minutes)
        => WrappedWindowFits(eval, EvalMinute,
                             time_to_minutes(eval.cfg.wake_time),
                             eval.cfg.transition_minutes)

\* C26: the brightness ramp applies only in DAY: in every NIGHT or
\* TRANSITION evaluation, whatever the configuration (a bedtime inside
\* the ramp window after wake included), the colour committed to the
\* strip is the state's colour scaled by the base brightness.
C26_RampOnlyInDay ==
    eval.state \in {"NIGHT", "TRANSITION"} =>
        StripShows(convert_color_order(eval.cfg,
                       ScaleColor(eval.color,
                                  [n |-> eval.cfg.brightness, d |-> 1])))

\* The colour of frame ev was interpolated at a progress p inside [0, 1]
\* and every channel of it lies between the stay and the wake value.
ProgressFits(ev, p) ==
    /\ p.d > 0
    /\ 0 <= p.n /\ p.n <= p.d
    /\ ev.color = interpolate_color(ev.cfg.stay_color, ev.cfg.wake_color, p)
    /\ BetweenColors(ev.color, ev.cfg.stay_color, ev.cfg.wake_color)

\* C27: in every evaluation that selects TRANSITION, under every
\* configuration with transition_minutes >= 0, the progress passed to
\* interpolate_color lies in [0, 1] and each truncated channel of the
\* interpolated colour lies between the stay and the wake value.
C27_ProgressInUnitInterval ==
    (eval.state = "TRANSITION" /\ eval.cfg.transition_minutes >= 0)
        => ProgressFits(eval, TransitionProgress(eval.cfg, EvalMinute))

\* 06:59 of the window 06:30 - 07:00: the last TRANSITION minute, at
\* progress 29/30.
C27_Witness ==
    /\ eval.state = "TRANSITION"
    /\ eval.cfg.wake_time = <<7, 0>>
    /\ eval.cfg.transition_minutes = 30
    /\ EvalMinute = 419
    /\ TransitionProgress(eval.cfg, EvalMinute) = [n |-> 29, d |-> 30]

\* The fields r read back are the fields a written, the year being 2000
\* plus the two digits stored.
RoundTripFits(r, a) ==
    /\ r.year = a.year /\ r.month = a.month /\ r.day = a.day
    /\ r.hours = a.hours /\ r.minutes = a.minutes /\ r.seconds = a.seconds
    /\ r.year = 2000 + bcd_to_dec(dec_to_bcd(a.year - 2000))

\* C28: for every valid time (year 2000..2099, month 1..12, day 1..31,
\* hour 0..23, minute 0..59, second 0..59), read_ds3231_time decodes the
\* seven bytes write_ds3231_time produced into the same year, month, day,
\* hour, minute and second, the year being 2000 plus the stored value; and
\* bcd_to_dec(dec_to_bcd(x)) = x for every x in 0..99.
C28_CodecRoundTrip ==
    /\ ret.fn = "read_ds3231_time" => RoundTripFits(ret.value, ret.arg)
    /\ ret.fn = "bcd_to_dec" => ret.value = ret.arg.year - 2000

\* 2099-12-31 23:59:59 written and read back: every register at its
\* highest valid value.
C28_Witness ==
    /\ ret.fn = "read_ds3231_time"
    /\ ret.arg = [year |-> 2099, month |-> 12, day |-> 31, hours |-> 23,
                  minutes |-> 59, seconds |-> 59]
    /\ ret.value.year = 2099
    /\ ret.value.seconds = 59

\* C29: after every step from startup on (settings loads and
\* configuration POSTs), the external clock handle is set only if
\* use_external_rtc is true in the current settings and the device was
\* detected; and while use_external_rtc is false no read of or write to
\* the external clock takes place: no sync and no time correction made in
\* the step reports a transfer.
C29_HandleFollowsSetting ==
    [][/\ external_rtc' => (settings'.use_external_rtc /\ ds_present')
       /\ (/\ ~settings'.use_external_rtc
           /\ ret'.fn \in {"sync_time_from_ds3231", "set_time_from_string"}
           /\ ret'.active)
              => ret' = ret]_vars

\* A time correction handled while the device is present but switched off
\* in the settings: the handle is unset and nothing was written.
C29_Witness ==
    /\ ret.fn = "set_time_from_string"
    /\ ~ret.active
    /\ ds_present
    /\ ~external_rtc
    /\ ~settings.use_external_rtc
    /\ pc = "server"
    /\ rtc.secs >= ret.t

\* The days of month mo of year y that fall on weekday w, in the numbering
\* the scan compares with.
OccurrenceDays(y, mo, w) ==
    {d \in 1..DaysInMonth(y, mo) : ScanWeekday(y, mo, d) = w}

\* Day v is the n-th (n > 0) or the last (n = -1) of the days occ, and no
\* day when occ has no n-th element.
OrdinalFits(v, occ, n) ==
    IF n > 0
    THEN IF Cardinality(occ) >= n
         THEN v \in occ /\ Cardinality({d \in occ : d <= v}) = n
         ELSE v = NoDay
    ELSE v \in occ /\ \A d \in occ : d <= v

\* C30: for every year, month, weekday and ordinal n in 1..5 or last,
\* get_nth_weekday_of_month returns a day between 1 and the length of the
\* month that is the n-th (or last) occurrence of the weekday in the
\* month, and no day when the month has no n-th occurrence: the scan does
\* not count days past the end of the month.
C30_NthWeekdayInsideMonth ==
    ret.fn = "get_nth_weekday_of_month" =>
        OrdinalFits(ret.value,
                    OccurrenceDays(ret.arg.year, ret.arg.month,
                                   ret.arg.weekday),
                    ret.arg.n)

\* C31: an evaluation (update_leds with the get_local_time, is_dst_active
\* and get_current_brightness calls it makes) is read-only on its inputs:
\* across an iteration of the offline loop that consists of update_leds
\* and the sleep, the settings record and the external clock handle are
\* unchanged, the evaluation read the settings and the clock as they were
\* before it, and the clock moved on only by the time that passed; what
\* may change is the flash session and the LED buffer.
C31_EvaluationReadOnly ==
    [][(pc = "offline" /\ ~external_rtc)
           => /\ settings' = settings
              /\ external_rtc' = external_rtc
              /\ eval'.cfg = settings
              /\ eval'.at = rtc
              /\ rtc' \in NextMinute
              /\ ds_time' = ds_time
              /\ ret' = ret]_vars

\* An evaluation inside the brightness ramp that changed the LED buffer:
\* the settings it read are still the current ones.
C31_Witness ==
    /\ pc = "offline"
    /\ eval.state = "DAY"
    /\ eval.cfg = settings
    /\ settings.brightness_ramp_enabled
    /\ EvalMinute = 425
    /\ strip # <<>>
    /\ ~StripShows(eval.color)
    /\ rtc.secs = eval.at.secs + 60

\* C32: in every state reached from the default settings through
\* configuration POSTs, utc_offset_minutes is the value of the static
\* table for the configured timezone identifier: TIMEZONES[timezone], or 0
\* for an identifier that is not in the table.
C32_OffsetFollowsTimezone ==
    /\ settings.timezone \in DOMAIN TIMEZONES
           => settings.utc_offset_minutes = TIMEZONES[settings.timezone]
    /\ settings.timezone \notin DOMAIN TIMEZONES
           => settings.utc_offset_minutes = 0

\* After a POST that selected EST: the offset is -300 and the evaluation
\* of the handler read it.
C32_Witness ==
    /\ pc = "server"
    /\ settings.timezone = "EST"
    /\ settings.utc_offset_minutes = -300
    /\ eval.cfg = settings

\* Frame ev is an evaluation in the bedtime minute that reached
\* should_flash with the flash enabled.
AtBedtimeFlash(ev, m) ==
    /\ ev.state \in VisualStates
    /\ ~ev.stay
    /\ ev.cfg.flash_enabled
    /\ ev.cfg.bedtime_enabled
    /\ m = time_to_minutes(ev.cfg.bedtime)

\* C33: at most one flash session per bedtime occurrence: once an
\* evaluation in the bedtime minute has ended the session it found because
\* flash_duration elapsed, the next evaluation under the same settings,
\* still in the bedtime minute, starts no new session and does not flash.
C33_OneSessionPerBedtime ==
    [][(/\ AtBedtimeFlash(eval, EvalMinute)
        /\ eval.session # None
        /\ flash_start_time = None
        /\ eval' # eval
        /\ eval'.cfg = eval.cfg
        /\ AtBedtimeFlash(eval', get_current_minutes(eval'.cfg, eval'.at)))
           => (flash_start_time' = None /\ ~eval'.flash)]_vars

\* C34: when the date and time fields web_page echoed are posted back
\* unchanged, the clock is set to the UTC date, hour and minute it held
\* before the POST, whatever the timezone offset: saving an unchanged form
\* does not shift the clock.
C34_EchoKeepsClock ==
    [][(pc = "server" /\ ret'.fn = "set_time_from_string" /\ ret' # ret)
           => ret'.t = rtc.secs - (rtc.secs % 60)]_vars

\* The evaluation u selected the state and the colour of frame ev and
\* committed the frame the strip shows.
SameOutcome(ev, u) ==
    /\ ~u.raised
    /\ u.ev.state = ev.state
    /\ u.ev.color = ev.color
    /\ u.strip = strip

\* C35: with flash disabled and transition_minutes >= 0, a bedtime that
\* is enabled with bedtime_minute <= wake_minute has no observable effect:
\* at every minute update_leds selects the state and the colour it selects
\* with bedtime disabled.
C35_EarlyBedtimeNoEffect ==
    (/\ eval.state # "NONE"
     /\ ~eval.cfg.flash_enabled
     /\ eval.cfg.transition_minutes >= 0
     /\ eval.cfg.bedtime_enabled
     /\ time_to_minutes(eval.cfg.bedtime) <= time_to_minutes(eval.cfg.wake_time))
        => SameOutcome(eval,
               update_leds([eval.cfg EXCEPT !.bedtime_enabled = FALSE],
                           eval.at, eval.session, eval.toggle, np, strip))

\* 05:30 under bedtime 05:00 and wake 07:00: inside the stay period, where
\* the bedtime branch selects NIGHT.
C35_Witness ==
    /\ eval.stay
    /\ eval.state = "NIGHT"
    /\ ~eval.cfg.flash_enabled
    /\ eval.cfg.bedtime_enabled
    /\ eval.cfg.bedtime = <<5, 0>>
    /\ eval.cfg.wake_time = <<7, 0>>
    /\ EvalMinute = 330

\* C36: for every settings record reached from the defaults through
\* configuration POSTs, every channel value set_all_leds hands to the LED
\* driver is an integer in 0..255.
C36_ChannelsAreBytes ==
    \A i \in DOMAIN strip :
        \A k \in DOMAIN strip[i] : strip[i][k] \in 0..255

=============================================================================
